---- MODULE Spec2Model ----
(***************************************************************************)
(* State-machine model of automation/monitoring/health-monitor.py: the     *)
(* VLLMHealthMonitor object, its four collectors, send_alert, save_metrics,*)
(* run_health_check and run_monitoring_loop.                               *)
(*                                                                         *)
(* Units: wall-clock time and response times are whole seconds; GPU        *)
(* temperature is whole degrees; cpu_percent and memory.percent are tenths *)
(* of a percent (psutil reports one decimal); the two percentages the code *)
(* computes by division (GPU memory, disk) are hundredths of a percent, so *)
(* that the ":.1f" formatting of the alert message is a real rounding.     *)
(***************************************************************************)
EXTENDS Integers, Sequences, FiniteSets, TLC

VARIABLES
    config,        \* self.config (load_config)
    config_file,   \* the lines of the configuration file load_config has not read yet
    gpu_count,     \* self.gpu_count (setup_nvidia)
    alert_counts,  \* self.alert_counts: alert_key -> time of last dispatch
    pc,            \* position of the process in main / run_monitoring_loop / run_health_check
    now,           \* time.time()
    metrics,       \* the dict being built by run_health_check
    trace,         \* what the current cycle has done so far, in program order
    appended,      \* the lines the current cycle has appended to the metrics file
    cycle_start,   \* time at which the current cycle started
    cycle_end,     \* time at which the latest completed cycle returned
    last_sent,     \* per alert_key, the time of its last hand-over to the channels
    undelivered,   \* the alert keys whose last hand-over met a channel that raised
    argv,          \* sys.argv[1:] of main
    cycles,        \* number of run_health_check calls so far
    results,       \* validate-config.py: self.results of the ConfigValidator
    exit_status    \* validate-config.py: the exit status of the process, None while it runs

vars == <<config, config_file, gpu_count, alert_counts, pc, now, metrics, trace,
          appended, cycle_start, cycle_end, last_sent, undelivered, argv,
          cycles, results, exit_status>>

(***************************************************************************)
(* Bounds of the exploration.                                              *)
(***************************************************************************)
\* the clock is explored up to this many seconds after construction
MaxTime == 3700
\* the loop is explored for at most this many cycles (the clock ends it
\* earlier when the interval is long)
MaxCycles == 3
\* a single check is explored with between 0 and MaxGpus devices
MaxGpus == 2

(***************************************************************************)
(* Program constants.                                                      *)
(***************************************************************************)
\* send_alert: "don't send same alert more than once per hour"
RATE_LIMIT_SECONDS == 3600
\* check_system_resources: psutil.cpu_percent(interval=1) blocks one second
CPU_SAMPLE_SECONDS == 1
\* load_config defaults
GPU_MEMORY_THRESHOLD == 95
GPU_TEMP_THRESHOLD == 85
CPU_THRESHOLD == 90
MEMORY_THRESHOLD == 90
DISK_THRESHOLD == 85
API_RESPONSE_THRESHOLD == 5
GENERATION_TIME_THRESHOLD == 30

\* Python's None where a number is expected
None == -1

\* The built-in defaults of load_config (the keys the monitor reads).
DefaultConfig ==
    [ HEALTH_CHECK_INTERVAL     |-> 30,
      GPU_MEMORY_THRESHOLD      |-> GPU_MEMORY_THRESHOLD,
      GPU_TEMP_THRESHOLD        |-> GPU_TEMP_THRESHOLD,
      CPU_THRESHOLD             |-> CPU_THRESHOLD,
      MEMORY_THRESHOLD          |-> MEMORY_THRESHOLD,
      DISK_THRESHOLD            |-> DISK_THRESHOLD,
      API_RESPONSE_THRESHOLD    |-> API_RESPONSE_THRESHOLD,
      GENERATION_TIME_THRESHOLD |-> GENERATION_TIME_THRESHOLD,
      ENABLE_SLACK_ALERTS       |-> FALSE,
      SLACK_WEBHOOK             |-> FALSE,
      ENABLE_EMAIL_ALERTS       |-> FALSE,
      EMAIL_RECIPIENTS          |-> FALSE ]


(***************************************************************************)
(* Alert candidates and the cycle's trace.                                 *)
(***************************************************************************)
\* The message text of an alert: a fixed wording, the GPU index it names
\* (None when it names none) and the formatted reading embedded in it.
Message(text, gpu, value) == [text |-> text, gpu |-> gpu, value |-> value]

\* alert_key = f"{title}:{message}"
AlertKey(title, message) == [title |-> title, message |-> message]

NoKey == AlertKey("", Message("", None, None))

\* One entry of the trace: what happened, for which alert key (NoKey when it
\* concerns no alert), at what time, and for a "send_alert" entry the time at
\* which the same key was last handed to the channels (None if never).
Event(ev, key, at, prev) == [ev |-> ev, key |-> key, at |-> at, prev |-> prev]

Step(ev, at) == Event(ev, NoKey, at, None)

\* f"{x:.1f}" of a percentage held in hundredths: the reading in tenths,
\* rounded to nearest.
Format1(x) == (x + 5) \div 10

(***************************************************************************)
(* send_alert.  st is the part of the monitor a collector can change       *)
(* through it: counts (self.alert_counts), trace and sent.  net tells      *)
(* whether the Slack POST and the mail subprocess succeed.                 *)
(***************************************************************************)
SlackEnabled == config.ENABLE_SLACK_ALERTS /\ config.SLACK_WEBHOOK

EmailEnabled == config.ENABLE_EMAIL_ALERTS /\ config.EMAIL_RECIPIENTS

\* the rate limit test without its time comparison: once sent, never again
RateLimited_Forever(counts, key, current_time) ==
    key \in DOMAIN counts

\* the rate limit test with <= for <
RateLimited_Closed(counts, key, current_time) ==
    /\ key \in DOMAIN counts
    /\ current_time - counts[key] <= RATE_LIMIT_SECONDS

\* lines 371-373: the rate limit test
RateLimited(counts, key, current_time) ==
    /\ key \in DOMAIN counts
    /\ current_time - counts[key] < RATE_LIMIT_SECONDS

\* the keys whose last hand-over met a channel that raised (394, 405), after
\* a hand-over of key with the outcome net
Undelivered(keys, key, net) ==
    IF (SlackEnabled /\ ~net.slack_ok) \/ (EmailEnabled /\ ~net.mail_ok)
    THEN keys \cup {key}
    ELSE keys \ {key}

\* lines 379-395
SlackNotify(tr, key, t, net) ==
    IF SlackEnabled
    THEN IF net.slack_ok
         THEN Append(tr, Event("slack", key, t, None))
         ELSE tr \o << Event("slack", key, t, None),
                       Event("log_error_slack", key, t, None) >>
    ELSE tr

\* lines 397-406
EmailNotify(tr, key, t, net) ==
    IF EmailEnabled
    THEN IF net.mail_ok
         THEN Append(tr, Event("mail", key, t, None))
         ELSE tr \o << Event("mail", key, t, None),
                       Event("log_error_mail", key, t, None) >>
    ELSE tr

\* send_alert that notifies before it tests the rate limit
SendAlert_NotifyFirst(st, title, message, current_time, net) ==
    LET key   == AlertKey(title, message)
        prev  == IF key \in DOMAIN st.sent THEN st.sent[key] ELSE None
        entry == EmailNotify(
                   SlackNotify(
                     Append(st.trace, Event("send_alert", key, current_time, prev)),
                     key, current_time, net),
                   key, current_time, net)
    IN  IF RateLimited(st.counts, key, current_time)
        THEN [st EXCEPT !.trace = Append(entry, Event("suppressed", key, current_time, None))]
        ELSE [ counts |-> [k \in DOMAIN st.counts \cup {key} |->
                              IF k = key THEN current_time ELSE st.counts[k]],
               sent   |-> [k \in DOMAIN st.sent \cup {key} |->
                              IF k = key THEN current_time ELSE st.sent[k]],
               undelivered |-> Undelivered(st.undelivered, key, net),
               trace  |-> entry \o << Event("recorded", key, current_time, None),
                                      Event("log_alert", key, current_time, None) >> ]

\* send_alert in which an exception of the Slack POST leaves the function
SendAlert_SlackRaises(st, title, message, current_time, net) ==
    LET key   == AlertKey(title, message)
        prev  == IF key \in DOMAIN st.sent THEN st.sent[key] ELSE None
        entry == Append(st.trace, Event("send_alert", key, current_time, prev))
        told  == SlackNotify(
                   entry \o << Event("recorded", key, current_time, None),
                               Event("log_alert", key, current_time, None) >>,
                   key, current_time, net)
    IN  IF RateLimited(st.counts, key, current_time)
        THEN [st EXCEPT !.trace = Append(entry, Event("suppressed", key, current_time, None))]
        ELSE [ counts |-> [k \in DOMAIN st.counts \cup {key} |->
                              IF k = key THEN current_time ELSE st.counts[k]],
               sent   |-> [k \in DOMAIN st.sent \cup {key} |->
                              IF k = key THEN current_time ELSE st.sent[k]],
               undelivered |-> Undelivered(st.undelivered, key, net),
               trace  |-> IF SlackEnabled /\ ~net.slack_ok
                          THEN told
                          ELSE EmailNotify(told, key, current_time, net) ]

\* send_alert that records the dispatch time only when no channel raised
SendAlert_RecordOnDelivery(st, title, message, current_time, net) ==
    LET key   == AlertKey(title, message)
        prev  == IF key \in DOMAIN st.sent THEN st.sent[key] ELSE None
        entry == Append(st.trace, Event("send_alert", key, current_time, prev))
        lost  == key \in Undelivered(st.undelivered, key, net)
    IN  IF RateLimited(st.counts, key, current_time)
        THEN [st EXCEPT !.trace = Append(entry, Event("suppressed", key, current_time, None))]
        ELSE [ counts |-> IF lost THEN st.counts
                          ELSE [k \in DOMAIN st.counts \cup {key} |->
                                  IF k = key THEN current_time ELSE st.counts[k]],
               sent   |-> [k \in DOMAIN st.sent \cup {key} |->
                              IF k = key THEN current_time ELSE st.sent[k]],
               undelivered |-> Undelivered(st.undelivered, key, net),
               trace  |-> EmailNotify(
                            SlackNotify(
                              entry \o << Event("recorded", key, current_time, None),
                                          Event("log_alert", key, current_time, None) >>,
                              key, current_time, net),
                            key, current_time, net) ]

\* send_alert whose suppressed candidates restart the hour
SendAlert_SlidingWindow(st, title, message, current_time, net) ==
    LET key   == AlertKey(title, message)
        prev  == IF key \in DOMAIN st.sent THEN st.sent[key] ELSE None
        entry == Append(st.trace, Event("send_alert", key, current_time, prev))
    IN  IF RateLimited(st.counts, key, current_time)
        THEN [st EXCEPT !.trace = Append(entry, Event("suppressed", key, current_time, None)),
                        !.counts = [@ EXCEPT ![key] = current_time]]
        ELSE [ counts |-> [k \in DOMAIN st.counts \cup {key} |->
                              IF k = key THEN current_time ELSE st.counts[k]],
               sent   |-> [k \in DOMAIN st.sent \cup {key} |->
                              IF k = key THEN current_time ELSE st.sent[k]],
               undelivered |-> Undelivered(st.undelivered, key, net),
               trace  |-> EmailNotify(
                            SlackNotify(
                              entry \o << Event("recorded", key, current_time, None),
                                          Event("log_alert", key, current_time, None) >>,
                              key, current_time, net),
                            key, current_time, net) ]

\* lines 365-406.  The entries "suppressed" (the return of line 373) and
\* "recorded" (line 375) mark the decision; neither is a log line.
SendAlert(st, title, message, current_time, net) ==
    LET key   == AlertKey(title, message)
        prev  == IF key \in DOMAIN st.sent THEN st.sent[key] ELSE None
        entry == Append(st.trace, Event("send_alert", key, current_time, prev))
    IN  IF RateLimited(st.counts, key, current_time)
        THEN [st EXCEPT !.trace = Append(entry, Event("suppressed", key, current_time, None))]
        ELSE [ counts |-> [k \in DOMAIN st.counts \cup {key} |->
                              IF k = key THEN current_time ELSE st.counts[k]],
               sent   |-> [k \in DOMAIN st.sent \cup {key} |->
                              IF k = key THEN current_time ELSE st.sent[k]],
               undelivered |-> Undelivered(st.undelivered, key, net),
               trace  |-> EmailNotify(
                            SlackNotify(
                              entry \o << Event("recorded", key, current_time, None),
                                          Event("log_alert", key, current_time, None) >>,
                              key, current_time, net),
                            key, current_time, net) ]


(***************************************************************************)
(* The four collectors.  Each takes st (see SendAlert), what the host      *)
(* answers this time, the time t0 at which it is called and net, and       *)
(* returns [st, snap, t]: the changed st, the snapshot it returns and the  *)
(* time at which it returns.                                               *)
(***************************************************************************)
Returned(st, snap, t) == [st |-> st, snap |-> snap, t |-> t]

LogError(st, what, t) == [st EXCEPT !.trace = Append(@, Step(what, t))]

\* lines 163-169
ApiError(t) == [error |-> TRUE, timestamp |-> t, overall_status |-> FALSE]

\* lines 171-199: the generation time, or None when the request failed
test_generation(in) == IF in.g_ok THEN in.g_rt ELSE None

\* the threshold tests of check_api_health without the one of line 158
ApiThresholds_HealthOnly(st, health_response_time, generation_time, t, net) ==
    IF health_response_time > config.API_RESPONSE_THRESHOLD
    THEN SendAlert(st, "API Response Time High",
                   Message("Health endpoint response time", None,
                           health_response_time), t, net)
    ELSE st

\* lines 154-159: the two threshold tests of check_api_health
ApiThresholds(st, health_response_time, generation_time, t, net) ==
    LET s1 == IF health_response_time > config.API_RESPONSE_THRESHOLD
              THEN SendAlert(st, "API Response Time High",
                             Message("Health endpoint response time", None,
                                     health_response_time), t, net)
              ELSE st
    IN  IF generation_time # None /\ generation_time # 0
           /\ generation_time > config.GENERATION_TIME_THRESHOLD
        THEN SendAlert(s1, "Generation Time High",
                       Message("Generation response time", None, generation_time),
                       t, net)
        ELSE s1

\* check_api_health whose overall_status leaves the generation test out
check_api_health_TwoOfThree(st, in, t0, net) ==
    IF in.h_exc
    THEN Returned(LogError(st, "log_error_api", t0 + in.h_rt),
                  ApiError(t0 + in.h_rt), t0 + in.h_rt)
    ELSE IF in.m_exc
    THEN Returned(LogError(st, "log_error_api", t0 + in.h_rt + in.m_rt),
                  ApiError(t0 + in.h_rt + in.m_rt), t0 + in.h_rt + in.m_rt)
    ELSE LET t == t0 + in.h_rt + in.m_rt + in.g_rt
             generation_time == test_generation(in)
             result ==
                 [ error           |-> FALSE,
                   timestamp       |-> t,
                   health_endpoint |-> [status |-> in.h_status,
                                        response_time |-> in.h_rt],
                   models_endpoint |-> [status |-> in.m_status,
                                        response_time |-> in.m_rt],
                   generation_test |-> [status |-> generation_time # None,
                                        response_time |-> generation_time],
                   overall_status  |-> in.h_status /\ in.m_status ]
         IN  Returned(ApiThresholds(st, in.h_rt, generation_time, t, net), result, t)

\* lines 113-169.  in: h_exc/m_exc (the GET raised), h_status/m_status (the
\* answer was 200), h_rt/m_rt/g_rt (seconds the request took), g_ok (the
\* POST answered 200 without raising).
check_api_health(st, in, t0, net) ==
    IF in.h_exc
    THEN Returned(LogError(st, "log_error_api", t0 + in.h_rt),
                  ApiError(t0 + in.h_rt), t0 + in.h_rt)
    ELSE IF in.m_exc
    THEN Returned(LogError(st, "log_error_api", t0 + in.h_rt + in.m_rt),
                  ApiError(t0 + in.h_rt + in.m_rt), t0 + in.h_rt + in.m_rt)
    ELSE LET t == t0 + in.h_rt + in.m_rt + in.g_rt
             generation_time == test_generation(in)
             result ==
                 [ error           |-> FALSE,
                   timestamp       |-> t,
                   health_endpoint |-> [status |-> in.h_status,
                                        response_time |-> in.h_rt],
                   models_endpoint |-> [status |-> in.m_status,
                                        response_time |-> in.m_rt],
                   generation_test |-> [status |-> generation_time # None,
                                        response_time |-> generation_time],
                   overall_status  |-> in.h_status /\ in.m_status
                                       /\ generation_time # None ]
         IN  Returned(ApiThresholds(st, in.h_rt, generation_time, t, net), result, t)

\* the threshold tests for device i with the temperature tested first
GpuThresholds_TempFirst(st, i, memory_used_percent, temp, t, net) ==
    LET s1 == IF temp > config.GPU_TEMP_THRESHOLD
              THEN SendAlert(st, "GPU Temperature High",
                             Message("temperature", i, temp), t, net)
              ELSE st
    IN  IF memory_used_percent > config.GPU_MEMORY_THRESHOLD * 100
        THEN SendAlert(s1, "GPU Memory High",
                       Message("memory usage", i, Format1(memory_used_percent)),
                       t, net)
        ELSE s1

\* the threshold tests for device i with messages that always name device 0
GpuThresholds_NamesFirst(st, i, memory_used_percent, temp, t, net) ==
    LET s1 == IF memory_used_percent > config.GPU_MEMORY_THRESHOLD * 100
              THEN SendAlert(st, "GPU Memory High",
                             Message("memory usage", 0, Format1(memory_used_percent)),
                             t, net)
              ELSE st
    IN  IF temp > config.GPU_TEMP_THRESHOLD
        THEN SendAlert(s1, "GPU Temperature High",
                       Message("temperature", 0, temp), t, net)
        ELSE s1

\* lines 249-254: the two threshold tests for device i
GpuThresholds(st, i, memory_used_percent, temp, t, net) ==
    LET s1 == IF memory_used_percent > config.GPU_MEMORY_THRESHOLD * 100
              THEN SendAlert(st, "GPU Memory High",
                             Message("memory usage", i, Format1(memory_used_percent)),
                             t, net)
              ELSE st
    IN  IF temp > config.GPU_TEMP_THRESHOLD
        THEN SendAlert(s1, "GPU Temperature High",
                       Message("temperature", i, temp), t, net)
        ELSE s1

\* the trace entry of line 247 names the device whose readings it appended
DeviceKey(i) == AlertKey("", Message("", i, None))

\* lines 209-254: the loop over the devices from index i on.  in[i + 1] is
\* what device i answers: exc (an NVML call raised), used_percent, temp,
\* power (None when nvmlDeviceGetPowerUsage raised).
RECURSIVE GpuLoop(_, _, _, _, _, _)
GpuLoop(st, in, i, gpu_data, t, net) ==
    IF i >= gpu_count
    THEN Returned(st, [error |-> FALSE, timestamp |-> t, available |-> TRUE,
                       gpu_count |-> gpu_count, gpus |-> gpu_data], t)
    ELSE IF in[i + 1].exc
    THEN Returned(LogError(st, "log_error_gpu", t),
                  [error |-> TRUE, available |-> TRUE], t)
    ELSE GpuLoop(GpuThresholds(
                   [st EXCEPT !.trace = Append(@, Event("gpu_data_append", DeviceKey(i),
                                                        t, None))],
                   i, in[i + 1].used_percent, in[i + 1].temp, t, net),
                 in, i + 1,
                 Append(gpu_data, [index        |-> i,
                                   used_percent |-> in[i + 1].used_percent,
                                   temperature  |-> in[i + 1].temp,
                                   power_usage  |-> in[i + 1].power]),
                 t, net)

\* check_gpu_status without the test of line 203
check_gpu_status_NoGuard(st, in, t0, net) ==
    GpuLoop(st, in, 0, << >>, t0, net)

\* lines 201-265
check_gpu_status(st, in, t0, net) ==
    IF gpu_count = 0
    THEN Returned(st, [error |-> FALSE, available |-> FALSE], t0)
    ELSE GpuLoop(st, in, 0, << >>, t0, net)

\* the threshold tests of check_system_resources with >= for >
SystemThresholds_AtLeast(st, cpu_percent, memory_percent, disk_percent, t, net) ==
    LET s1 == IF cpu_percent >= config.CPU_THRESHOLD * 10
              THEN SendAlert(st, "CPU Usage High",
                             Message("CPU usage", None, cpu_percent), t, net)
              ELSE st
        s2 == IF memory_percent >= config.MEMORY_THRESHOLD * 10
              THEN SendAlert(s1, "Memory Usage High",
                             Message("Memory usage", None, memory_percent), t, net)
              ELSE s1
    IN  IF disk_percent >= config.DISK_THRESHOLD * 100
        THEN SendAlert(s2, "Disk Usage High",
                       Message("Disk usage", None, Format1(disk_percent)), t, net)
        ELSE s2

\* lines 321-329: the three threshold tests of check_system_resources
SystemThresholds(st, cpu_percent, memory_percent, disk_percent, t, net) ==
    LET s1 == IF cpu_percent > config.CPU_THRESHOLD * 10
              THEN SendAlert(st, "CPU Usage High",
                             Message("CPU usage", None, cpu_percent), t, net)
              ELSE st
        s2 == IF memory_percent > config.MEMORY_THRESHOLD * 10
              THEN SendAlert(s1, "Memory Usage High",
                             Message("Memory usage", None, memory_percent), t, net)
              ELSE s1
    IN  IF disk_percent > config.DISK_THRESHOLD * 100
        THEN SendAlert(s2, "Disk Usage High",
                       Message("Disk usage", None, Format1(disk_percent)), t, net)
        ELSE s2

\* lines 267-335.  in: exc (a psutil call raised), cpu, mem, disk.
check_system_resources(st, in, t0, net) ==
    LET t == t0 + CPU_SAMPLE_SECONDS
    IN  IF in.exc
        THEN Returned(LogError(st, "log_error_system", t), [error |-> TRUE], t)
        ELSE Returned(SystemThresholds(st, in.cpu, in.mem, in.disk, t, net),
                      [ error     |-> FALSE,
                        timestamp |-> t,
                        cpu       |-> [usage_percent |-> in.cpu],
                        memory    |-> [used_percent |-> in.mem],
                        disk      |-> [used_percent |-> in.disk] ],
                      t)

\* the trace entry of a scanned process names what the process was
ProcessKey(kind) == AlertKey("", Message(kind, None, None))

\* lines 342-353: the scan of the processes from position n on, found being
\* the number of matches appended so far.  What a process may be:
\*   "vllm"   its name or command line contains vllm (344): appended;
\*   "other"  readable, no match;
\*   "raises" reading it raises NoSuchProcess or AccessDenied: skipped (352);
\*   "denied" psutil was denied its command line and process_iter stored
\*            None in proc.info for it (the ad_value of process_iter): the
\*            any() of line 344 raises TypeError, which 352 does not catch.
RECURSIVE ScanProcesses(_, _, _, _, _)
ScanProcesses(st, procs, n, found, t) ==
    IF n > Len(procs)
    THEN Returned(st, [error |-> FALSE, timestamp |-> t, process_count |-> found], t)
    ELSE LET seen == [st EXCEPT !.trace = Append(@, Event("scan", ProcessKey(procs[n]),
                                                          t, None))]
         IN  CASE procs[n] = "vllm"   -> ScanProcesses(seen, procs, n + 1, found + 1, t)
               [] procs[n] = "other"  -> ScanProcesses(seen, procs, n + 1, found, t)
               [] procs[n] = "raises" -> ScanProcesses(seen, procs, n + 1, found, t)
               [] procs[n] = "denied" ->
                    Returned(LogError(seen, "log_error_processes", t),
                             [error |-> TRUE], t)

\* lines 337-363.  in: exc (process_iter itself raised), procs (the
\* processes it yields, in order).
check_vllm_processes(st, in, t0) ==
    IF in.exc
    THEN Returned(LogError(st, "log_error_processes", t0), [error |-> TRUE], t0)
    ELSE ScanProcesses(st, in.procs, 1, 0, t0)


(***************************************************************************)
(* What the host may answer (the inputs of the collectors).  The loop is   *)
(* explored with the few answers of the Loop... sets, over several cycles; *)
(* a single check (--check-once) with the products of the Once... sets.    *)
(***************************************************************************)
ApiAnswer(h_exc, h_status, h_rt, m_exc, m_status, m_rt, g_ok, g_rt) ==
    [ h_exc |-> h_exc, h_status |-> h_status, h_rt |-> h_rt,
      m_exc |-> m_exc, m_status |-> m_status, m_rt |-> m_rt,
      g_ok  |-> g_ok,  g_rt |-> g_rt ]

LoopApiInputs ==
    { ApiAnswer(TRUE,  FALSE, 0, FALSE, FALSE, 0, FALSE, 0),    \* connection refused
      ApiAnswer(FALSE, TRUE,  5, FALSE, TRUE,  1, TRUE,  30),   \* at both thresholds
      ApiAnswer(FALSE, TRUE,  6, FALSE, TRUE,  0, TRUE,  31) }  \* above both

OnceApiInputs ==
    { ApiAnswer(TRUE, FALSE, 0, FALSE, FALSE, 0, FALSE, 0) } \cup
    { ApiAnswer(FALSE, TRUE, hrt, TRUE, FALSE, 10, FALSE, 0) : hrt \in {5, 6} } \cup
    { ApiAnswer(FALSE, hs, hrt, FALSE, ms, 1, g[1], g[2]) :
        hs \in BOOLEAN, hrt \in {5, 6}, ms \in BOOLEAN,
        g \in {<<TRUE, 30>>, <<TRUE, 31>>, <<FALSE, 30>>} }

DeviceAnswer(exc, used_percent, temp, power) ==
    [exc |-> exc, used_percent |-> used_percent, temp |-> temp, power |-> power]

LoopDeviceAnswers ==
    { DeviceAnswer(TRUE,  None, None, None),
      DeviceAnswer(FALSE, 9500, 85, 250),
      DeviceAnswer(FALSE, 9500, 86, None),
      DeviceAnswer(FALSE, 9601, 87, 250) }

OnceDeviceAnswers ==
    { DeviceAnswer(TRUE, None, None, None) } \cup
    { DeviceAnswer(FALSE, m, t, IF m = 9500 /\ t = 85 THEN None ELSE 250) :
        m \in {9500, 9504}, t \in {85, 86} }

GpuInputs(answers) == [1..gpu_count -> answers]

SystemAnswer(exc, cpu, mem, disk) == [exc |-> exc, cpu |-> cpu, mem |-> mem, disk |-> disk]

LoopSystemInputs ==
    { SystemAnswer(TRUE,  None, None, None),
      SystemAnswer(FALSE, 900, 900, 8500),
      SystemAnswer(FALSE, 901, 900, 8500) }

OnceSystemInputs ==
    { SystemAnswer(TRUE, None, None, None) } \cup
    { SystemAnswer(FALSE, c, m, d) : c \in {900, 901}, m \in {900, 901}, d \in {8500, 8504} }

ProcessAnswer(exc, procs) == [exc |-> exc, procs |-> procs]

LoopProcessInputs == { ProcessAnswer(TRUE, << >>),
                       ProcessAnswer(FALSE, << "other", "vllm" >>) }

OnceProcessInputs == { ProcessAnswer(TRUE, << >>),
                       ProcessAnswer(FALSE, << >>),
                       ProcessAnswer(FALSE, << "vllm" >>) }

\* whether the Slack POST and the mail command return (TRUE) or raise
NetOutcomes == [slack_ok : BOOLEAN, mail_ok : BOOLEAN]

\* both channels deliver
Delivered == { [slack_ok |-> TRUE, mail_ok |-> TRUE] }

\* save_metrics: everything works, mkdir raises, open/dump/write raises
FsOutcomes == {"ok", "mkdir_fails", "write_fails"}

\* configuration files of the loop: HEALTH_CHECK_INTERVAL and the channels.
\* One cycle with the API down lasts CPU_SAMPLE_SECONDS, so with 3599 the
\* next cycle meets the rate limit exactly; 1800 puts two cycles inside it.
LoopConfigs ==
    { [DefaultConfig EXCEPT !.HEALTH_CHECK_INTERVAL = i,
                            !.ENABLE_SLACK_ALERTS = c, !.SLACK_WEBHOOK = c,
                            !.ENABLE_EMAIL_ALERTS = c, !.EMAIL_RECIPIENTS = c] :
        i \in {1800, 3599}, c \in BOOLEAN }

\* configuration files of a single check: the default thresholds, or each
\* of them one higher
OnceConfigs ==
    { [DefaultConfig EXCEPT !.GPU_MEMORY_THRESHOLD = @ + d,
                            !.GPU_TEMP_THRESHOLD = @ + d,
                            !.CPU_THRESHOLD = @ + d,
                            !.MEMORY_THRESHOLD = @ + d,
                            !.DISK_THRESHOLD = @ + d,
                            !.API_RESPONSE_THRESHOLD = @ + d,
                            !.GENERATION_TIME_THRESHOLD = @ + d] : d \in {0, 1} }

\* lines 99-111: self.gpu_count.  nvidia_available is NVIDIA_AVAILABLE (the
\* import of pynvml worked), init_ok that nvmlInit and nvmlDeviceGetCount did
\* not raise, device_count what nvmlDeviceGetCount answered.
setup_nvidia(nvidia_available, init_ok, device_count) ==
    IF nvidia_available
    THEN IF init_ok THEN device_count ELSE 0
    ELSE 0

\* the values of self.gpu_count on hosts with at most max devices
HostGpuCounts(max) ==
    { setup_nvidia(a, ok, n) : a \in BOOLEAN, ok \in BOOLEAN, n \in 0..max }

\* device counts the loop is explored with
LoopGpuCounts == HostGpuCounts(1)

(***************************************************************************)
(* The process.                                                            *)
(***************************************************************************)
Pending == [pending |-> TRUE]

EmptyMap == [k \in {} |-> None]

NoMetrics == [ timestamp |-> None, api_health |-> Pending, gpu_status |-> Pending,
               system_resources |-> Pending, vllm_processes |-> Pending ]

\* a monitor that starts with the hand-over times of an earlier process
Constructed_Preloaded(configs, counts, args) ==
    /\ config \in configs
    /\ config_file = << >>
    /\ results = << >>
    /\ exit_status = None
    /\ gpu_count \in counts
    /\ argv \in args
    /\ alert_counts = [k \in { AlertKey("API Response Time High",
                                        Message("Health endpoint response time", None, 6)) }
                         |-> 0]
    /\ last_sent = EmptyMap
    /\ undelivered = {}
    /\ pc = "main"
    /\ now = 0
    /\ metrics = NoMetrics
    /\ trace = << >>
    /\ appended = << >>
    /\ cycle_start = None
    /\ cycle_end = None
    /\ cycles = 0

\* lines 27-36 and 463-473: the monitor as constructed by main
Constructed(configs, counts, args) ==
    /\ config \in configs
    /\ config_file = << >>
    /\ results = << >>
    /\ exit_status = None
    /\ gpu_count \in counts
    /\ argv \in args
    /\ alert_counts = EmptyMap
    /\ last_sent = EmptyMap
    /\ undelivered = {}
    /\ pc = "main"
    /\ now = 0
    /\ metrics = NoMetrics
    /\ trace = << >>
    /\ appended = << >>
    /\ cycle_start = None
    /\ cycle_end = None
    /\ cycles = 0

Init == Constructed(LoopConfigs, LoopGpuCounts, {""})

InitOnce == Constructed(OnceConfigs, HostGpuCounts(MaxGpus), {"--check-once"})

\* no configuration file: the interval of 30 s is shorter than a cycle with
\* the API up
InitDefault == Constructed({DefaultConfig}, LoopGpuCounts, {""})

Dispatcher == [counts |-> alert_counts, sent |-> last_sent,
               undelivered |-> undelivered, trace |-> trace]

Called(what) == [Dispatcher EXCEPT !.trace = Append(@, Step(what, now))]

\* a collector whose exception is not caught: it leaves run_health_check
Collected_Propagate(r, next) ==
    /\ alert_counts' = r.st.counts
    /\ last_sent' = r.st.sent
    /\ undelivered' = r.st.undelivered
    /\ trace' = r.st.trace
    /\ now' = r.t
    /\ pc' = IF r.snap.error THEN "crashed" ELSE next
    /\ UNCHANGED <<config, config_file, results, exit_status, gpu_count, argv, cycles, appended, cycle_start, cycle_end>>

\* what a collector's return leaves behind
Collected(r, next) ==
    /\ alert_counts' = r.st.counts
    /\ last_sent' = r.st.sent
    /\ undelivered' = r.st.undelivered
    /\ trace' = r.st.trace
    /\ now' = r.t
    /\ pc' = next
    /\ UNCHANGED <<config, config_file, results, exit_status, gpu_count, argv, cycles, appended, cycle_start, cycle_end>>

\* a loop that goes round again after "Monitoring stopped by user"
StartHealthCheck_FromStopped ==
    /\ pc \in {"main", "loop", "stopped"}
    /\ cycles < MaxCycles
    /\ pc' = "api"
    /\ metrics' = [NoMetrics EXCEPT !.timestamp = now]
    /\ trace' = << Step("log_info_start", now) >>
    /\ appended' = << >>
    /\ cycle_start' = now
    /\ cycles' = cycles + 1
    /\ UNCHANGED <<config, config_file, results, exit_status, gpu_count, argv, alert_counts, last_sent, undelivered, now, cycle_end>>

\* a cycle that leaves the API collector out
StartHealthCheck_SkipApi ==
    /\ pc \in {"main", "loop"}
    /\ pc' = "gpu"
    /\ metrics' = [NoMetrics EXCEPT !.timestamp = now]
    /\ trace' = << Step("log_info_start", now) >>
    /\ appended' = << >>
    /\ cycle_start' = now
    /\ cycles' = cycles + 1
    /\ UNCHANGED <<config, config_file, results, exit_status, gpu_count, argv, alert_counts, last_sent, undelivered, now, cycle_end>>

\* lines 423-429 (entered from main or from the top of the while loop)
StartHealthCheck ==
    /\ pc \in {"main", "loop"}
    /\ pc' = "api"
    /\ metrics' = [NoMetrics EXCEPT !.timestamp = now]
    /\ trace' = << Step("log_info_start", now) >>
    /\ appended' = << >>
    /\ cycle_start' = now
    /\ cycles' = cycles + 1
    /\ UNCHANGED <<config, config_file, results, exit_status, gpu_count, argv, alert_counts, last_sent, undelivered, now, cycle_end>>

\* line 430
CheckApi(inputs, nets) ==
    /\ pc = "api"
    /\ \E in \in inputs, net \in nets :
         LET r == check_api_health(Called("check_api_health"), in, now, net)
         IN  /\ metrics' = [metrics EXCEPT !.api_health = r.snap]
             /\ Collected(r, "gpu")

\* line 431
CheckGpu(answers, nets) ==
    /\ pc = "gpu"
    /\ \E in \in GpuInputs(answers), net \in nets :
         LET r == check_gpu_status(Called("check_gpu_status"), in, now, net)
         IN  /\ metrics' = [metrics EXCEPT !.gpu_status = r.snap]
             /\ Collected(r, "system")

\* line 432
CheckSystem(inputs, nets) ==
    /\ pc = "system"
    /\ \E in \in inputs, net \in nets :
         LET r == check_system_resources(Called("check_system_resources"), in, now, net)
         IN  /\ metrics' = [metrics EXCEPT !.system_resources = r.snap]
             /\ Collected(r, "processes")

\* run_health_check that returns without calling save_metrics
CheckProcesses_NoSave(inputs) ==
    /\ pc = "processes"
    /\ \E in \in inputs :
         LET r == check_vllm_processes(Called("check_vllm_processes"), in, now)
         IN  /\ metrics' = [metrics EXCEPT !.vllm_processes = r.snap]
             /\ Collected(r, "sleep")

\* line 433
CheckProcesses(inputs) ==
    /\ pc = "processes"
    /\ \E in \in inputs :
         LET r == check_vllm_processes(Called("check_vllm_processes"), in, now)
         IN  /\ metrics' = [metrics EXCEPT !.vllm_processes = r.snap]
             /\ Collected(r, "save")

\* where run_health_check returns to
AfterCheck == IF argv = "--check-once" THEN "print" ELSE "sleep"

\* save_metrics that writes nothing for a cycle whose four collectors failed
save_metrics_SkipFailed(lines, record, fs, t) ==
    IF fs = "mkdir_fails"
    THEN [raised |-> TRUE, lines |-> lines, log |-> << >>]
    ELSE IF fs = "write_fails"
    THEN [raised |-> FALSE, lines |-> lines, log |-> << Step("log_error_save", t) >>]
    ELSE IF /\ record.api_health.error /\ record.gpu_status.error
            /\ record.system_resources.error /\ record.vllm_processes.error
    THEN [raised |-> FALSE, lines |-> lines, log |-> << >>]
    ELSE [raised |-> FALSE, lines |-> Append(lines, record),
          log |-> << Step("append", t) >>]

\* lines 408-421: mkdir is outside the try, the append inside it
save_metrics(lines, record, fs, t) ==
    IF fs = "mkdir_fails"
    THEN [raised |-> TRUE, lines |-> lines, log |-> << >>]
    ELSE IF fs = "write_fails"
    THEN [raised |-> FALSE, lines |-> lines, log |-> << Step("log_error_save", t) >>]
    ELSE [raised |-> FALSE, lines |-> Append(lines, record),
          log |-> << Step("append", t) >>]

\* lines 436-446; an exception of save_metrics leaves run_health_check and,
\* in the loop, is logged and raised again (459-461)
SaveMetrics ==
    /\ pc = "save"
    /\ \E fs \in FsOutcomes :
         LET r == save_metrics(appended, metrics, fs, now)
         IN  /\ appended' = r.lines
             /\ IF r.raised
                THEN /\ pc' = "crashed"
                     /\ trace' = trace \o
                          (<< Step("save_metrics", now) >> \o
                           (IF argv = "--check-once" THEN << >>
                            ELSE << Step("log_error_loop", now) >>))
                     /\ UNCHANGED cycle_end
                ELSE /\ pc' = AfterCheck
                     /\ trace' = trace \o << Step("save_metrics", now) >> \o r.log
                                       \o << Step("log_info_complete", now) >>
                     /\ cycle_end' = now
    /\ UNCHANGED <<config, config_file, results, exit_status, gpu_count, argv, cycles, alert_counts, last_sent, undelivered, now, metrics,
                   cycle_start>>

\* a loop that schedules the next tick from the start of the cycle
Sleep_FromStart ==
    /\ pc = "sleep"
    /\ now + config.HEALTH_CHECK_INTERVAL <= MaxTime
    /\ cycles < MaxCycles
    /\ now' = IF cycle_start + config.HEALTH_CHECK_INTERVAL > now
              THEN cycle_start + config.HEALTH_CHECK_INTERVAL ELSE now
    /\ pc' = "loop"
    /\ trace' = Append(trace, Step("sleep", now))
    /\ UNCHANGED <<config, config_file, results, exit_status, gpu_count, argv, cycles, alert_counts, last_sent, undelivered, metrics,
                   appended, cycle_start, cycle_end>>

\* a loop that returns after the sleep instead of going round
Sleep_ThenReturn ==
    /\ pc = "sleep"
    /\ now + config.HEALTH_CHECK_INTERVAL <= MaxTime
    /\ cycles < MaxCycles
    /\ now' = now + config.HEALTH_CHECK_INTERVAL
    /\ pc' = "stopped"
    /\ trace' = Append(trace, Step("sleep", now))
    /\ UNCHANGED <<config, config_file, results, exit_status, gpu_count, argv, cycles, alert_counts, last_sent, undelivered,
                   metrics, appended, cycle_start, cycle_end>>

\* line 455
Sleep ==
    /\ pc = "sleep"
    /\ now + config.HEALTH_CHECK_INTERVAL <= MaxTime
    /\ cycles < MaxCycles
    /\ now' = now + config.HEALTH_CHECK_INTERVAL
    /\ pc' = "loop"
    /\ trace' = Append(trace, Step("sleep", now))
    /\ UNCHANGED <<config, config_file, results, exit_status, gpu_count, argv, cycles, alert_counts, last_sent, undelivered, metrics,
                   appended, cycle_start, cycle_end>>

\* main that goes on to the loop after printing the record
PrintMetrics_ThenLoop ==
    /\ pc = "print"
    /\ pc' = "loop"
    /\ trace' = Append(trace, Step("print", now))
    /\ UNCHANGED <<config, config_file, results, exit_status, gpu_count, argv, cycles, alert_counts, last_sent, undelivered,
                   now, metrics, appended, cycle_start, cycle_end>>

\* lines 477-478
PrintMetrics ==
    /\ pc = "print"
    /\ pc' = "done"
    /\ trace' = Append(trace, Step("print", now))
    /\ UNCHANGED <<config, config_file, results, exit_status, gpu_count, argv, cycles, alert_counts, last_sent, undelivered, now, metrics,
                   appended, cycle_start, cycle_end>>

\* KeyboardInterrupt: no collector and no save_metrics catches it (they
\* catch Exception); the loop does (457-458), --check-once does not.
Interrupt ==
    /\ pc \in {"loop", "api", "gpu", "system", "processes", "save", "sleep", "print"}
    /\ pc' = IF argv = "--check-once" THEN "crashed" ELSE "stopped"
    /\ trace' = IF argv = "--check-once" THEN Append(trace, Step("interrupt", now))
                ELSE trace \o << Step("interrupt", now), Step("log_info_stopped", now) >>
    /\ UNCHANGED <<config, config_file, results, exit_status, gpu_count, argv, cycles, alert_counts, last_sent, undelivered, now, metrics,
                   appended, cycle_start, cycle_end>>

\* the continuous monitor (no arguments)
Next ==
    \/ StartHealthCheck
    \/ CheckApi(LoopApiInputs, Delivered)
    \/ CheckGpu(LoopDeviceAnswers, Delivered)
    \/ CheckSystem(LoopSystemInputs, Delivered)
    \/ CheckProcesses(LoopProcessInputs)
    \/ SaveMetrics
    \/ Sleep
    \/ Interrupt

Spec == Init /\ [][Next]_vars

\* the continuous monitor with the built-in configuration
SpecDefault == InitDefault /\ [][Next]_vars

\* a single check (--check-once)
NextOnce ==
    \/ StartHealthCheck
    \/ CheckApi(OnceApiInputs, Delivered)
    \/ CheckGpu(OnceDeviceAnswers, Delivered)
    \/ CheckSystem(OnceSystemInputs, Delivered)
    \/ CheckProcesses(OnceProcessInputs)
    \/ SaveMetrics
    \/ PrintMetrics
    \/ Interrupt

SpecOnce == InitOnce /\ [][NextOnce]_vars

\* The continuous monitor on a host with two devices and at least one
\* channel enabled, the channels free to fail.  With this interval the
\* second cycle falls inside the rate limit of everything the first one
\* dispatched.
AlertConfigs ==
    { [DefaultConfig EXCEPT !.HEALTH_CHECK_INTERVAL = 1900,
                            !.ENABLE_SLACK_ALERTS = c[1], !.SLACK_WEBHOOK = c[1],
                            !.ENABLE_EMAIL_ALERTS = c[2], !.EMAIL_RECIPIENTS = c[2]] :
        c \in {<<TRUE, TRUE>>, <<TRUE, FALSE>>, <<FALSE, TRUE>>} }

AlertGpuCounts == { setup_nvidia(TRUE, TRUE, 2) }

AlertApiInputs ==
    { ApiAnswer(TRUE,  FALSE, 0, FALSE, FALSE, 0, FALSE, 0),
      ApiAnswer(FALSE, TRUE,  6, FALSE, TRUE,  0, TRUE,  31) }

AlertDeviceAnswers ==
    { DeviceAnswer(TRUE,  None, None, None),
      DeviceAnswer(FALSE, 9500, 85, None),
      DeviceAnswer(FALSE, 9601, 87, 250) }

AlertSystemInputs ==
    { SystemAnswer(TRUE,  None, None, None),
      SystemAnswer(FALSE, 901, 901, 8504) }

AlertProcessInputs == { ProcessAnswer(FALSE, << "vllm" >>) }

InitAlerts == Constructed(AlertConfigs, AlertGpuCounts, {""})

NextAlerts ==
    \/ StartHealthCheck
    \/ CheckApi(AlertApiInputs, NetOutcomes)
    \/ CheckGpu(AlertDeviceAnswers, NetOutcomes)
    \/ CheckSystem(AlertSystemInputs, NetOutcomes)
    \/ CheckProcesses(AlertProcessInputs)
    \/ SaveMetrics
    \/ Sleep
    \/ Interrupt

SpecAlerts == InitAlerts /\ [][NextAlerts]_vars


\* main from its first line, on the default configuration.  argv is
\* sys.argv[1], "" when there is none.
HelpFlags == {"-h", "--help"}

MainArgs == {"", "--check-once"} \cup HelpFlags

MainProcessInputs ==
    { ProcessAnswer(TRUE, << >>),
      ProcessAnswer(FALSE, << "other", "vllm" >>),
      ProcessAnswer(FALSE, << "vllm", "raises", "vllm" >>),
      ProcessAnswer(FALSE, << "vllm", "denied", "vllm" >>) }

\* the process before main has looked at its arguments; config and
\* gpu_count are what load_config and setup_nvidia will find if called
InitMain ==
    /\ config = DefaultConfig
    /\ config_file = << >>
    /\ results = << >>
    /\ exit_status = None
    /\ gpu_count \in LoopGpuCounts
    /\ argv \in MainArgs
    /\ alert_counts = EmptyMap
    /\ last_sent = EmptyMap
    /\ undelivered = {}
    /\ pc = "start"
    /\ now = 0
    /\ metrics = NoMetrics
    /\ trace = << >>
    /\ appended = << >>
    /\ cycle_start = None
    /\ cycle_end = None
    /\ cycles = 0

\* lines 465-469
PrintUsage ==
    /\ pc = "start"
    /\ argv \in HelpFlags
    /\ pc' = "done"
    /\ trace' = Append(trace, Step("print_usage", now))
    /\ UNCHANGED <<config, config_file, results, exit_status, gpu_count, argv, cycles, alert_counts, last_sent, undelivered,
                   now, metrics, appended, cycle_start, cycle_end>>

\* lines 471-473
Construct ==
    /\ pc = "start"
    /\ argv \notin HelpFlags
    /\ pc' = "main"
    /\ trace' = Append(trace, Step("construct", now))
    /\ UNCHANGED <<config, config_file, results, exit_status, gpu_count, argv, cycles, alert_counts, last_sent, undelivered,
                   now, metrics, appended, cycle_start, cycle_end>>

NextMain ==
    \/ PrintUsage
    \/ Construct
    \/ StartHealthCheck
    \/ CheckApi(AlertApiInputs, Delivered)
    \/ CheckGpu(AlertDeviceAnswers, Delivered)
    \/ CheckSystem(AlertSystemInputs, Delivered)
    \/ CheckProcesses(MainProcessInputs)
    \/ SaveMetrics
    \/ Sleep
    \/ PrintMetrics
    \/ Interrupt

SpecMain == InitMain /\ [][NextMain]_vars

\* The continuous monitor left alone: no interrupt arrives, and every call
\* and every sleep returns.
NextLive ==
    \/ StartHealthCheck
    \/ CheckApi(AlertApiInputs, Delivered)
    \/ CheckGpu(AlertDeviceAnswers, Delivered)
    \/ CheckSystem(AlertSystemInputs, Delivered)
    \/ CheckProcesses(LoopProcessInputs)
    \/ SaveMetrics
    \/ Sleep

SpecLive == InitDefault /\ [][NextLive]_vars /\ WF_vars(NextLive)

(***************************************************************************)
(* load_config.  A line of the file is a sequence of characters; a key     *)
(* name is taken as one character of its own, since no step of load_config *)
(* looks inside it.  SuperscriptTwo is U+00B2, a character for which       *)
(* str.isdigit() is true and which int() and float() do not accept.        *)
(***************************************************************************)
SuperscriptTwo == "^2"

Quote == "\""

DigitValue(c) ==
    CASE c = "0" -> 0 [] c = "1" -> 1 [] c = "2" -> 2 [] c = "3" -> 3 [] c = "5" -> 5

IsDecimal(c) == c \in {"0", "1", "2", "3", "5"}

\* str.isdigit() of one character
IsDigit(c) == IsDecimal(c) \/ c = SuperscriptTwo

\* str.lower() of one character
Lower(c) ==
    CASE c = "T" -> "t" [] c = "F" -> "f" [] c = "I" -> "i" [] c = "N" -> "n"
      [] c = "O" -> "o" [] OTHER -> c

LowerText(text) == [n \in DOMAIN text |-> Lower(text[n])]

\* str.strip(): the text without the spaces at its two ends
RECURSIVE StripChars(_, _)
StripChars(text, chars) ==
    IF text = << >> THEN text
    ELSE IF Head(text) \in chars THEN StripChars(Tail(text), chars)
    ELSE IF text[Len(text)] \in chars THEN StripChars(SubSeq(text, 1, Len(text) - 1), chars)
    ELSE text

Strip(text) == StripChars(text, {" "})

\* str.isdigit(): not empty and every character a digit
IsDigitText(text) == text # << >> /\ \A n \in DOMAIN text : IsDigit(text[n])

\* value.replace('.', '')
WithoutDots(text) == SelectSeq(text, LAMBDA c : c # ".")

\* int(text) of a text of decimal digits
RECURSIVE IntOf(_)
IntOf(text) ==
    IF text = << >> THEN 0
    ELSE 10 * IntOf(SubSeq(text, 1, Len(text) - 1)) + DigitValue(text[Len(text)])

\* the position of the first c in text
FirstIndex(text, c) == CHOOSE n \in DOMAIN text :
                           text[n] = c /\ \A m \in 1..(n - 1) : text[m] # c

\* float(text) of a text of decimal digits around one dot:
\* mantissa / 10^places
FloatOf(text) == [mantissa |-> IntOf(WithoutDots(text)),
                  places   |-> Len(text) - FirstIndex(text, ".")]

Stored(value) == [raised |-> FALSE, stored |-> value]

ValueError == [raised |-> TRUE, stored |-> None]

\* lines 68-76: the value stored for a value text, or the ValueError of
\* int() or float()
Convert(value) ==
    IF LowerText(value) \in { << "t", "r", "u", "e" >>, << "f", "a", "l", "s", "e" >> }
    THEN Stored(LowerText(value) = << "t", "r", "u", "e" >>)
    ELSE IF IsDigitText(value)
    THEN IF \A n \in DOMAIN value : IsDecimal(value[n])
         THEN Stored(IntOf(value)) ELSE ValueError
    ELSE IF (\E n \in DOMAIN value : value[n] = ".") /\ IsDigitText(WithoutDots(value))
    THEN IF Len(value) - Len(WithoutDots(value)) = 1
            /\ \A n \in DOMAIN value : value[n] = "." \/ IsDecimal(value[n])
         THEN Stored(FloatOf(value)) ELSE ValueError
    ELSE Stored(value)

\* line 63: the line, stripped, is an assignment
IsAssignment(line) ==
    LET l == Strip(line)
    IN  l # << >> /\ l[1] # "#" /\ \E n \in DOMAIN l : l[n] = "="

\* lines 64-65: key of an assignment
KeyOf(line) ==
    LET l   == Strip(line)
        key == Strip(SubSeq(l, 1, FirstIndex(l, "=") - 1))
    IN  IF key = << >> THEN "" ELSE key[1]

\* lines 64-66: value text of an assignment
ValueOf(line) ==
    LET l == Strip(line)
    IN  StripChars(Strip(SubSeq(l, FirstIndex(l, "=") + 1, Len(l))), {Quote})

\* lines 61-76: one turn of the loop over the lines of the file
LoadConfigLine(cfg, line) ==
    IF IsAssignment(line)
    THEN LET c == Convert(ValueOf(line))
         IN  IF c.raised THEN [raised |-> TRUE, config |-> cfg]
             ELSE [raised |-> FALSE,
                   config |-> [k \in DOMAIN cfg \cup {KeyOf(line)} |->
                                  IF k = KeyOf(line) THEN c.stored ELSE cfg[k]]]
    ELSE [raised |-> FALSE, config |-> cfg]

ConfigKeys == {"HEALTH_CHECK_INTERVAL", "LOG_LEVEL"}

ValueTexts ==
    { << >>,
      << "t", "r", "u", "e" >>, << "F", "a", "l", "s", "e" >>,
      << "3", "0" >>, << "0", "0", "5" >>, << SuperscriptTwo >>,
      << "2", ".", "5" >>, << "5", "." >>, << "." >>,
      << "1", ".", "2", ".", "3" >>,
      << "I", "N", "F", "O" >>, << "a", "=", "1" >>,
      << Quote, "3", "0", Quote >> }

\* assignments without and with spaces around the key and the value, a
\* comment, a blank line and a line without "="
ConfigLines ==
    { << k, "=" >> \o v : k \in ConfigKeys, v \in ValueTexts } \cup
    { << " ", "LOG_LEVEL", " ", "=", " " >> \o v \o << " " >> :
        v \in { << "3", "0" >>, << "I", "N", "F", "O" >> } } \cup
    { << "#", "LOG_LEVEL", "=", "3" >>, << " " >>, << "LOG_LEVEL" >> }

MaxLines == 2

ConfigFiles ==
    UNION { [1..n -> ConfigLines] : n \in 0..MaxLines }

\* line 29, at the start of load_config: the dict literal of lines 40-58
InitConfig ==
    /\ config = DefaultConfig
    /\ config_file \in ConfigFiles
    /\ results = << >>
    /\ exit_status = None
    /\ gpu_count \in LoopGpuCounts
    /\ argv = ""
    /\ alert_counts = EmptyMap
    /\ last_sent = EmptyMap
    /\ undelivered = {}
    /\ pc = "load_config"
    /\ now = 0
    /\ metrics = NoMetrics
    /\ trace = << >>
    /\ appended = << >>
    /\ cycle_start = None
    /\ cycle_end = None
    /\ cycles = 0

\* lines 61-76; a ValueError leaves load_config, __init__ and main
ReadConfigLine ==
    /\ pc = "load_config"
    /\ config_file # << >>
    /\ LET r == LoadConfigLine(config, Head(config_file))
       IN  /\ config' = r.config
           /\ pc' = IF r.raised THEN "crashed" ELSE "load_config"
    /\ config_file' = Tail(config_file)
    /\ UNCHANGED <<results, exit_status, gpu_count, argv, cycles, alert_counts, last_sent,
                   undelivered, now, metrics, trace, appended, cycle_start, cycle_end>>

\* lines 78 and 30-36
ReturnConfig ==
    /\ pc = "load_config"
    /\ config_file = << >>
    /\ pc' = "main"
    /\ trace' = << Step("construct", now) >>
    /\ UNCHANGED <<config, config_file, results, exit_status, gpu_count, argv, cycles, alert_counts, last_sent,
                   undelivered, now, metrics, appended, cycle_start, cycle_end>>

NextConfig ==
    \/ ReadConfigLine
    \/ ReturnConfig

SpecConfig == InitConfig /\ [][NextConfig]_vars

(***************************************************************************)
(* validate-config.py.  The validator is a process of its own; it shares   *)
(* nothing with the monitor, whose variables stay as constructed.  The     *)
(* JSON of crush-config.json is a function from the keys present to their  *)
(* values; a URL is its scheme and its host.                               *)
(***************************************************************************)
\* ValidationResult (lines 19-24)
ValidationResult(name, status, message) ==
    [name |-> name, status |-> status, message |-> message]

\* lines 66-69: add_result on the list rs
add_result(rs, name, status, message) ==
    Append(rs, ValidationResult(name, status, message))

Get(dict, key, default) == IF key \in DOMAIN dict THEN dict[key] ELSE default

\* lines 193-218, on the list rs
validate_model_config(rs, model) ==
    LET r1 == IF "id" \in DOMAIN model THEN rs
              ELSE add_result(rs, "Model Config - id", "fail", "Missing required field")
        r2 == IF "name" \in DOMAIN model THEN r1
              ELSE add_result(r1, "Model Config - name", "fail", "Missing required field")
        r3 == IF "context_window" \in DOMAIN model THEN r2
              ELSE add_result(r2, "Model Config - context_window", "fail",
                              "Missing required field")
        context_window == Get(model, "context_window", 0)
    IN  IF context_window >= 200000
        THEN add_result(r3, "Model Context Window", "pass", "Large context window configured")
        ELSE IF context_window > 0
        THEN add_result(r3, "Model Context Window", "warning", "Small context window")
        ELSE r3

\* lines 190-191: the loop over the models from position n on
RECURSIVE ValidateModels(_, _, _)
ValidateModels(rs, models, n) ==
    IF n > Len(models) THEN rs
    ELSE ValidateModels(validate_model_config(rs, models[n]), models, n + 1)

NoUrl == [scheme |-> "", host |-> ""]

\* line 160: f"Provider Config - {field}"
ProviderFieldName(field) ==
    CASE field = "type"     -> "Provider Config - type"
      [] field = "base_url" -> "Provider Config - base_url"
      [] field = "api_key"  -> "Provider Config - api_key"
      [] field = "models"   -> "Provider Config - models"

\* lines 156-164: the loop over the required fields of a provider
RECURSIVE ProviderFields(_, _, _)
ProviderFields(rs, provider, fields) ==
    IF fields = << >> THEN rs
    ELSE ProviderFields(
           IF Head(fields) \in DOMAIN provider THEN rs
           ELSE add_result(rs, ProviderFieldName(Head(fields)), "fail",
                           "Missing required field"),
           provider, Tail(fields))

\* lines 154-191, on the list rs
validate_provider_config(rs, provider) ==
    LET r1 == ProviderFields(rs, provider, << "type", "base_url", "api_key", "models" >>)
        base_url == Get(provider, "base_url", NoUrl)
        r2 == IF base_url.scheme \notin {"http://", "https://"}
              THEN add_result(r1, "Provider Base URL", "fail", "Invalid base_url format")
              ELSE IF base_url.host = "localhost:8000"
              THEN add_result(r1, "Provider Base URL", "pass",
                              "Base URL correctly configured for local vLLM")
              ELSE r1
        models == Get(provider, "models", << >>)
    IN  IF models = << >>
        THEN add_result(r2, "Provider Models", "fail", "No models configured")
        ELSE ValidateModels(r2, models, 1)

\* lines 98-106: the loop over the required fields of the file; the
\* continue of line 106 ends a turn that has nothing left to do
RECURSIVE SchemaFields(_, _, _)
SchemaFields(rs, crush, fields) ==
    IF fields = << >> THEN rs
    ELSE SchemaFields(
           IF Head(fields) \in DOMAIN crush THEN rs
           ELSE add_result(rs, "CRUSH Config Schema", "fail", Head(fields)),
           crush, Tail(fields))

NoProviders == [kind |-> "dict", items |-> [n \in {} |-> None]]

\* lines 82-152, on the list rs
validate_crush_config(rs, file) ==
    IF ~file.exists
    THEN add_result(rs, "CRUSH Config File", "fail", "Configuration file not found")
    ELSE IF ~file.json_ok
    THEN add_result(rs, "CRUSH Config File", "fail", "Invalid JSON format")
    ELSE LET crush == file.config
             r1 == SchemaFields(rs, crush,
                                << "providers", "default_provider", "default_model" >>)
             providers == Get(crush, "providers", NoProviders)
         IN  IF providers.kind # "dict"
             THEN add_result(r1, "CRUSH Config File", "fail", "Error reading config")
             ELSE LET r2 == IF "vllm-local" \notin DOMAIN providers.items
                            THEN add_result(r1, "CRUSH Providers", "fail",
                                            "Missing vllm-local provider configuration")
                            ELSE validate_provider_config(r1, providers.items["vllm-local"])
                      api_key == IF "vllm-local" \in DOMAIN providers.items
                                 THEN Get(providers.items["vllm-local"], "api_key", "")
                                 ELSE ""
                      r3 == IF api_key = "YOUR_API_KEY_HERE"
                            THEN add_result(r2, "CRUSH API Key", "warning",
                                            "API key is still set to placeholder value")
                            ELSE add_result(r2, "CRUSH API Key", "pass",
                                            "API key has been configured")
                  IN  add_result(r3, "CRUSH Config File", "pass",
                                 "Configuration file is valid")

\* lines 862-864
StatusCount(rs, status) == Cardinality({ n \in DOMAIN rs : rs[n].status = status })

\* the exit status with the warnings tested first
ExitCode_WarningFirst(rs) ==
    IF StatusCount(rs, "warning") > 0 THEN 2
    ELSE IF StatusCount(rs, "fail") > 0 THEN 1
    ELSE 0

\* lines 868-873
ExitCode(rs) ==
    IF StatusCount(rs, "fail") > 0 THEN 1
    ELSE IF StatusCount(rs, "warning") > 0 THEN 2
    ELSE 0

\* what crush-config.json may hold
Restrict(dict, keys) == [k \in keys |-> dict[k]]

Models ==
    LET full == [id |-> "qwen", name |-> "Qwen", context_window |-> 200000]
    IN  { [full EXCEPT !.context_window = w] : w \in {0, 4096, 200000} } \cup
        { Restrict(full, {"id", "name"}), Restrict(full, {"name", "context_window"}) }

Urls == { [scheme |-> "http://", host |-> "localhost:8000"],
          [scheme |-> "https://", host |-> "example.com"],
          [scheme |-> "", host |-> "localhost:8000"] }

Providers ==
    LET full(u, k, ms) == [type |-> "openai", base_url |-> u, api_key |-> k, models |-> ms]
    IN  { full(u, k, ms) : u \in Urls, k \in {"YOUR_API_KEY_HERE", "sk-local"},
                           ms \in {<< >>} \cup { << m >> : m \in Models } } \cup
        { Restrict(full(u, "sk-local", << m >>), ks) :
            u \in Urls, m \in Models,
            ks \in { {"type", "api_key", "models"}, {"type", "base_url", "api_key"},
                     {"base_url", "models"} } }

ProviderMaps ==
    { NoProviders, [kind |-> "null", items |-> [n \in {} |-> None]] } \cup
    { [kind |-> "dict", items |-> [n \in {"vllm-local"} |-> p]] : p \in Providers }

CrushConfigs ==
    LET full(pm) == [providers |-> pm, default_provider |-> "vllm-local",
                     default_model |-> "qwen"]
    IN  { Restrict(full(pm), ks) :
            pm \in ProviderMaps,
            ks \in { {"providers", "default_provider", "default_model"},
                     {"providers", "default_provider"},
                     {"default_provider", "default_model"} } }

CrushFiles ==
    { [exists |-> FALSE, json_ok |-> FALSE, config |-> [k \in {} |-> None]],
      [exists |-> TRUE, json_ok |-> FALSE, config |-> [k \in {} |-> None]] } \cup
    { [exists |-> TRUE, json_ok |-> TRUE, config |-> c] : c \in CrushConfigs }

\* what the eight other checks of validate_all (lines 49-62) may add: they
\* depend on the host alone
HostResults ==
    LET r(name, status) == ValidationResult(name, status, "")
    IN  { << >>,
          << r("Python Version", "pass"), r("GPU Detection", "info") >>,
          << r("Python Version", "warning") >>,
          << r("Environment Template", "fail") >>,
          << r("SSH Keys", "warning"), r("Scripts Directory", "fail"),
             r("vLLM API Health", "warning") >> }

\* lines 837-847: the validator constructed, validate_all entered
InitValidator ==
    /\ config = DefaultConfig
    /\ config_file = << >>
    /\ results = << >>
    /\ exit_status = None
    /\ gpu_count = 0
    /\ argv = ""
    /\ alert_counts = EmptyMap
    /\ last_sent = EmptyMap
    /\ undelivered = {}
    /\ pc = "validate_crush_config"
    /\ now = 0
    /\ metrics = NoMetrics
    /\ trace = << >>
    /\ appended = << >>
    /\ cycle_start = None
    /\ cycle_end = None
    /\ cycles = 0

ValidatorFrame ==
    UNCHANGED <<config, config_file, gpu_count, argv, cycles, alert_counts, last_sent,
                undelivered, now, metrics, appended, cycle_start, cycle_end>>

\* line 48
ValidateCrushConfig ==
    /\ pc = "validate_crush_config"
    /\ \E file \in CrushFiles : results' = validate_crush_config(results, file)
    /\ pc' = "validate_host"
    /\ trace' = Append(trace, Step("validate_crush_config", now))
    /\ UNCHANGED exit_status
    /\ ValidatorFrame

\* lines 49-64
ValidateHost ==
    /\ pc = "validate_host"
    /\ \E rs \in HostResults : results' = results \o rs
    /\ pc' = "report"
    /\ trace' = Append(trace, Step("validate_host", now))
    /\ UNCHANGED exit_status
    /\ ValidatorFrame

\* lines 850-873: the report is generated, written and announced, then the
\* status is chosen; an exception of generate_report, open, write or print
\* is caught by nothing and ends the process with a traceback and status 1
Report ==
    /\ pc = "report"
    /\ \E written \in BOOLEAN :
         IF written
         THEN /\ exit_status' = ExitCode(results)
              /\ trace' = Append(trace, Step("report_written", now))
         ELSE /\ exit_status' = 1
              /\ trace' = Append(trace, Step("traceback", now))
    /\ pc' = "exited"
    /\ UNCHANGED results
    /\ ValidatorFrame

NextValidator ==
    \/ ValidateCrushConfig
    \/ ValidateHost
    \/ Report

SpecValidator == InitValidator /\ [][NextValidator]_vars

(***************************************************************************)
(* Reading the trace.                                                      *)
(***************************************************************************)
\* positions of the trace at which ev happened
At(ev) == { i \in DOMAIN trace : trace[i].ev = ev }

\* positions at which ev happened for alert key
AtKey(ev, key) == { i \in DOMAIN trace : trace[i].ev = ev /\ trace[i].key = key }

\* the candidates handed to send_alert in this cycle
Candidates == At("send_alert")

\* the candidate at position i passed the rate limit
Dispatched(i) == AtKey("recorded", trace[i].key) # {}

\* a notification channel was invoked for the candidate at position i
ChannelInvoked(i) ==
    AtKey("slack", trace[i].key) \cup AtKey("mail", trace[i].key) # {}

\* every enabled channel was invoked for the candidate at position i
ReachedChannels(i) ==
    /\ SlackEnabled => AtKey("slack", trace[i].key) # {}
    /\ EmailEnabled => AtKey("mail", trace[i].key) # {}

\* run_health_check has returned for the cycle of the trace
CycleCompleted == At("log_info_complete") # {}

Failed(snap) == snap # Pending /\ snap.error

Succeeded(snap) == snap # Pending /\ ~snap.error


(***************************************************************************)
(* Claims about the dispatcher.                                            *)
(***************************************************************************)
\* C1: a candidate whose alert key (title and message) was last handed to
\* the channels less than 3600 seconds before is not handed over again and
\* invokes no channel; one whose key was last handed over more than 3600
\* seconds before is handed over and invokes every enabled channel.
SuppressionWindow ==
    \A i \in Candidates :
        trace[i].prev # None =>
            /\ trace[i].at - trace[i].prev < RATE_LIMIT_SECONDS
                 => ~Dispatched(i) /\ ~ChannelInvoked(i)
            /\ trace[i].at - trace[i].prev > RATE_LIMIT_SECONDS
                 => Dispatched(i) /\ ReachedChannels(i)

\* C1 witness: one cycle holds a repeated candidate inside the window that
\* invoked no channel and one outside it that reached Slack and mail.
SuppressionWindowSeen ==
    /\ SlackEnabled /\ EmailEnabled
    /\ \E i, j \in Candidates :
         /\ trace[i].prev # None
         /\ trace[i].at - trace[i].prev < RATE_LIMIT_SECONDS
         /\ ~ChannelInvoked(i)
         /\ trace[j].prev # None
         /\ trace[j].at - trace[j].prev > RATE_LIMIT_SECONDS
         /\ AtKey("slack", trace[j].key) # {}
         /\ AtKey("mail", trace[j].key) # {}

\* two alert keys of the same kind: same title, same wording, same device
SameKind(k1, k2) ==
    /\ k1.title = k2.title
    /\ k1.message.text = k2.message.text
    /\ k1.message.gpu = k2.message.gpu

\* C10: a candidate is not dispatched when an alert of the same kind, with
\* whatever reading in its message, was dispatched less than 3600 seconds
\* before.
SuppressionByKind ==
    \A i \in Candidates :
        \A k \in DOMAIN last_sent :
            /\ SameKind(k, trace[i].key)
            /\ k # trace[i].key
            /\ last_sent[k] < trace[i].at
            /\ trace[i].at - last_sent[k] < RATE_LIMIT_SECONDS
            => ~Dispatched(i)


\* C2: every candidate is followed at once by exactly one decision (the
\* rate-limit return, or the recording of the dispatch time); a channel is
\* invoked only after its candidate's dispatch was recorded, and never for
\* a candidate that was suppressed.
OneDecisionBeforeChannels ==
    /\ \A i \in Candidates :
         /\ i + 1 \in DOMAIN trace
         /\ trace[i + 1].key = trace[i].key
         /\ trace[i + 1].ev \in {"suppressed", "recorded"}
         /\ Cardinality(AtKey("suppressed", trace[i].key)
                        \cup AtKey("recorded", trace[i].key)) = 1
         /\ AtKey("suppressed", trace[i].key) # {} => ~ChannelInvoked(i)
    /\ \A j \in At("slack") \cup At("mail") :
         \E i \in AtKey("recorded", trace[j].key) : i < j

\* C2 witness: a cycle with a suppressed candidate that invoked nothing and
\* a dispatched one that invoked Slack and mail.
OneDecisionSeen ==
    \E i, j \in Candidates :
        /\ AtKey("suppressed", trace[i].key) # {}
        /\ ~ChannelInvoked(i)
        /\ AtKey("recorded", trace[j].key) # {}
        /\ AtKey("slack", trace[j].key) # {}
        /\ AtKey("mail", trace[j].key) # {}

(***************************************************************************)
(* Claims about the cycle.                                                 *)
(***************************************************************************)
AllFailed ==
    /\ Failed(metrics.api_health) /\ Failed(metrics.gpu_status)
    /\ Failed(metrics.system_resources) /\ Failed(metrics.vllm_processes)

\* C3 as stated: a cycle that ran to completion has appended exactly one
\* record.
PersistedExactlyOnce ==
    CycleCompleted => Len(appended) = 1

\* C3 amended: a cycle that ran to completion has called save_metrics
\* exactly once and has appended its record exactly once, also when all
\* four collectors failed, unless the append itself failed: then the
\* failure is logged and nothing was appended.
PersistedOnceUnlessWriteFails ==
    CycleCompleted =>
        /\ Cardinality(At("save_metrics")) = 1
        /\ IF At("log_error_save") # {}
           THEN appended = << >>
           ELSE appended = << metrics >>

\* C3 witness: a completed cycle whose four collectors failed and whose
\* record is in the file.
PersistedAllFailedSeen ==
    /\ CycleCompleted
    /\ AllFailed
    /\ appended = << metrics >>


(***************************************************************************)
(* Claims about the thresholds.                                            *)
(***************************************************************************)
\* the candidates of the cycle with this title that name this device
CandidatesFor(title, gpu) ==
    { i \in Candidates : trace[i].key.title = title /\ trace[i].key.message.gpu = gpu }

\* one candidate when the reading is above the limit, none otherwise
ExceedsRule(reading, limit, title, gpu) ==
    Cardinality(CandidatesFor(title, gpu)) = IF reading > limit THEN 1 ELSE 0

\* C4: for each reading of a snapshot (health and generation time, per
\* device memory percent and temperature, CPU, memory and disk percent) the
\* cycle holds exactly one candidate of that metric when the reading is
\* strictly above its threshold and none when it is equal or below.
StrictExceeds ==
    /\ Succeeded(metrics.api_health) =>
         /\ ExceedsRule(metrics.api_health.health_endpoint.response_time,
                        config.API_RESPONSE_THRESHOLD, "API Response Time High", None)
         /\ metrics.api_health.generation_test.response_time # None =>
              ExceedsRule(metrics.api_health.generation_test.response_time,
                          config.GENERATION_TIME_THRESHOLD, "Generation Time High", None)
    /\ Succeeded(metrics.gpu_status) /\ metrics.gpu_status.available =>
         \A n \in DOMAIN metrics.gpu_status.gpus :
            LET g == metrics.gpu_status.gpus[n]
            IN  /\ ExceedsRule(g.used_percent, config.GPU_MEMORY_THRESHOLD * 100,
                               "GPU Memory High", g.index)
                /\ ExceedsRule(g.temperature, config.GPU_TEMP_THRESHOLD,
                               "GPU Temperature High", g.index)
    /\ Succeeded(metrics.system_resources) =>
         /\ ExceedsRule(metrics.system_resources.cpu.usage_percent,
                        config.CPU_THRESHOLD * 10, "CPU Usage High", None)
         /\ ExceedsRule(metrics.system_resources.memory.used_percent,
                        config.MEMORY_THRESHOLD * 10, "Memory Usage High", None)
         /\ ExceedsRule(metrics.system_resources.disk.used_percent,
                        config.DISK_THRESHOLD * 100, "Disk Usage High", None)

\* C4 witness: a check with readings above and readings equal to their
\* thresholds: device 0 hot and device 1 at the limit, CPU above and memory
\* at the limit, /health slow and generation at the limit.
StrictExceedsSeen ==
    /\ pc = "save"
    /\ Succeeded(metrics.api_health)
    /\ Succeeded(metrics.gpu_status)
    /\ Succeeded(metrics.system_resources)
    /\ gpu_count = 2
    /\ metrics.gpu_status.gpus[1].temperature > config.GPU_TEMP_THRESHOLD
    /\ metrics.gpu_status.gpus[2].temperature = config.GPU_TEMP_THRESHOLD
    /\ Cardinality(CandidatesFor("GPU Temperature High", 0)) = 1
    /\ CandidatesFor("GPU Temperature High", 1) = {}
    /\ metrics.system_resources.cpu.usage_percent > config.CPU_THRESHOLD * 10
    /\ metrics.system_resources.memory.used_percent = config.MEMORY_THRESHOLD * 10
    /\ Cardinality(CandidatesFor("CPU Usage High", None)) = 1
    /\ CandidatesFor("Memory Usage High", None) = {}
    /\ metrics.api_health.health_endpoint.response_time > config.API_RESPONSE_THRESHOLD
    /\ metrics.api_health.generation_test.response_time = config.GENERATION_TIME_THRESHOLD
    /\ Cardinality(CandidatesFor("API Response Time High", None)) = 1
    /\ CandidatesFor("Generation Time High", None) = {}


(***************************************************************************)
(* Claims about failures, interrupts and the order of a cycle.             *)
(***************************************************************************)
\* a snapshot, once returned, is a failure exactly when its own collector
\* logged its own error
OwnFailure(snap, logged) == snap # Pending => (snap.error <=> At(logged) # {})

\* C5: a collector that fails returns a failed snapshot and nothing else:
\* its failure never ends the process, each snapshot is a failure only
\* through its own collector's error, all four collectors were called once
\* when save_metrics is reached, and the record it appends holds all four
\* snapshots.
FailureConfined ==
    /\ pc = "crashed" => At("save_metrics") \cup At("interrupt") # {}
    /\ OwnFailure(metrics.api_health, "log_error_api")
    /\ OwnFailure(metrics.gpu_status, "log_error_gpu")
    /\ OwnFailure(metrics.system_resources, "log_error_system")
    /\ OwnFailure(metrics.vllm_processes, "log_error_processes")
    /\ At("save_metrics") # {} =>
         /\ metrics.api_health # Pending /\ metrics.gpu_status # Pending
         /\ metrics.system_resources # Pending /\ metrics.vllm_processes # Pending
         /\ \A ev \in {"check_api_health", "check_gpu_status",
                       "check_system_resources", "check_vllm_processes"} :
              Cardinality(At(ev)) = 1
    /\ appended # << >> => appended = << metrics >>

\* C5 witness: the record of a cycle in which only the GPU collector failed
\* is in the file with the three other snapshots intact.
FailureConfinedSeen ==
    /\ appended = << metrics >>
    /\ Failed(metrics.gpu_status)
    /\ Succeeded(metrics.api_health)
    /\ Succeeded(metrics.system_resources)
    /\ Succeeded(metrics.vllm_processes)

\* C6: no exception of the recording step ends the monitoring loop: the
\* process never ends on an exception after save_metrics was entered.
RecorderFailureKeepsLoop ==
    pc = "crashed" => At("save_metrics") = {}

\* C7: the loop is stopped by an interrupt only with its cycle completed.
InterruptDrainsCycle ==
    pc = "stopped" /\ At("log_info_start") # {} => CycleCompleted

\* i is before j, for every j in the set js
Before(i, js) == \A j \in js : i < j

ApiTitles == {"API Response Time High", "Generation Time High"}

GpuTitles == {"GPU Memory High", "GPU Temperature High"}

SystemTitles == {"CPU Usage High", "Memory Usage High", "Disk Usage High"}

\* the calls of a cycle happen once each and in the order of run_health_check
CallsInOrder ==
    /\ \A ev \in {"check_api_health", "check_gpu_status", "check_system_resources",
                  "check_vllm_processes", "save_metrics", "sleep"} :
         Cardinality(At(ev)) <= 1
    /\ \A i \in At("check_gpu_status") : \E j \in At("check_api_health") : j < i
    /\ \A i \in At("check_system_resources") : \E j \in At("check_gpu_status") : j < i
    /\ \A i \in At("check_vllm_processes") : \E j \in At("check_system_resources") : j < i
    /\ \A i \in At("save_metrics") : \E j \in At("check_vllm_processes") : j < i
    /\ \A i \in At("sleep") : \E j \in At("save_metrics") : j < i

InCycle == pc \in {"api", "gpu", "system", "processes", "save"}

\* C9: a cycle starts only after the one before has returned, exactly
\* HEALTH_CHECK_INTERVAL after that return, and a cycle that has returned
\* did so after it started.
CyclesDoNotOverlap ==
    /\ InCycle /\ cycles > 1 =>
         /\ cycle_end # None
         /\ cycle_start = cycle_end + config.HEALTH_CHECK_INTERVAL
    /\ InCycle /\ cycles = 1 => cycle_end = None
    /\ ~InCycle /\ cycle_end # None /\ pc # "stopped" /\ pc # "crashed"
         => cycle_end >= cycle_start
    /\ Cardinality(At("log_info_start")) <= 1

\* C9 witness: the second cycle in progress after a first cycle that took
\* longer than the configured interval.
CyclesDoNotOverlapSeen ==
    /\ InCycle
    /\ cycles = 2
    /\ cycle_end > config.HEALTH_CHECK_INTERVAL

(***************************************************************************)
(* Claims about the snapshots.                                             *)
(***************************************************************************)
\* C11: on a host whose gpu_count is 0 (no pynvml, or nvmlInit failed) no
\* cycle holds a GPU memory or GPU temperature candidate or logs a GPU
\* failure, and every GPU snapshot says available = false and is not a
\* failure.
GpuUnavailable ==
    gpu_count = 0 =>
        /\ \A i \in Candidates : trace[i].key.title \notin GpuTitles
        /\ At("log_error_gpu") = {}
        /\ metrics.gpu_status # Pending =>
             /\ ~metrics.gpu_status.available
             /\ ~metrics.gpu_status.error

\* C11 witness: the second cycle of a host without GPU telemetry has called
\* the GPU collector and has candidates of other collectors.
GpuUnavailableSeen ==
    /\ gpu_count = 0
    /\ cycles = 2
    /\ At("check_gpu_status") # {}
    /\ metrics.gpu_status = [error |-> FALSE, available |-> FALSE]
    /\ Candidates # {}

\* the snapshot of the collector that raised the candidate at position i
\* (Pending while that collector has not returned)
SnapshotOf(i) ==
    IF trace[i].key.title \in ApiTitles THEN metrics.api_health
    ELSE IF trace[i].key.title \in GpuTitles THEN metrics.gpu_status
    ELSE metrics.system_resources

\* C12: a candidate that passed the rate limit has invoked every enabled
\* channel; a channel call that raised is logged right after that call, the
\* mail command is still invoked after a Slack failure, and the failure goes
\* no further: the API or resource collector that raised the candidate
\* returns its snapshot, not a failure, and the process never ends on it.
ChannelsIsolated ==
    /\ \A i \in Candidates : Dispatched(i) => ReachedChannels(i)
    /\ \A j \in At("log_error_slack") :
         /\ trace[j - 1].ev = "slack" /\ trace[j - 1].key = trace[j].key
         /\ EmailEnabled => \E k \in AtKey("mail", trace[j].key) : k > j
    /\ \A j \in At("log_error_mail") :
         /\ trace[j - 1].ev = "mail" /\ trace[j - 1].key = trace[j].key
         /\ SlackEnabled => \E k \in AtKey("slack", trace[j].key) : k < j
    /\ \A i \in Candidates :
         /\ AtKey("log_error_slack", trace[i].key)
              \cup AtKey("log_error_mail", trace[i].key) # {}
         /\ trace[i].key.title \notin GpuTitles
         => SnapshotOf(i) # Pending /\ ~SnapshotOf(i).error
    /\ pc = "crashed" => At("save_metrics") # {}

\* C12 witness: a completed cycle in which the Slack POST and the mail
\* command both raised for the same candidate.
ChannelsIsolatedSeen ==
    /\ CycleCompleted
    /\ \E i \in Candidates :
         /\ AtKey("log_error_slack", trace[i].key) # {}
         /\ AtKey("log_error_mail", trace[i].key) # {}

\* C13: every call of save_metrics returns to run_health_check, which then
\* completes the cycle, and the call has either appended the record or
\* logged why it could not.
RecorderNeverRaises ==
    At("save_metrics") # {} =>
        /\ CycleCompleted
        /\ At("append") \cup At("log_error_save") # {}

\* C14: every API snapshot carries, for each of the three requests, its
\* success flag and the time it took, whichever of them failed: the
\* snapshot is never the failure of the whole probe.
ApiSubChecksIsolated ==
    metrics.api_health # Pending =>
        /\ ~metrics.api_health.error
        /\ {"health_endpoint", "models_endpoint", "generation_test"}
             \subseteq DOMAIN metrics.api_health
        /\ metrics.api_health.health_endpoint.status \in BOOLEAN
        /\ metrics.api_health.models_endpoint.status \in BOOLEAN
        /\ metrics.api_health.generation_test.status \in BOOLEAN
        /\ metrics.api_health.health_endpoint.response_time # None
        /\ metrics.api_health.models_endpoint.response_time # None
        /\ metrics.api_health.generation_test.response_time # None

\* C15: the overall_status of an API snapshot is true exactly when the
\* snapshot is not the failure of the probe (a GET raised) and its three
\* success flags are true, the generation flag being true exactly when the
\* generation test returned a duration.
OverallStatusIsConjunction ==
    metrics.api_health # Pending =>
        IF metrics.api_health.error
        THEN /\ ~metrics.api_health.overall_status
             /\ At("log_error_api") # {}
        ELSE /\ metrics.api_health.overall_status
                  <=> /\ metrics.api_health.health_endpoint.status
                      /\ metrics.api_health.models_endpoint.status
                      /\ metrics.api_health.generation_test.status
             /\ metrics.api_health.generation_test.status
                  <=> metrics.api_health.generation_test.response_time # None

\* C15 witness: /health and /v1/models answered 200, the generation request
\* failed, and overall_status is false.
OverallStatusSeen ==
    /\ Succeeded(metrics.api_health)
    /\ metrics.api_health.health_endpoint.status
    /\ metrics.api_health.models_endpoint.status
    /\ ~metrics.api_health.generation_test.status
    /\ ~metrics.api_health.overall_status

\* the log lines send_alert can write about an alert
AlertLogEntries == {"log_alert", "log_error_slack", "log_error_mail"}

\* C16: every suppression leaves a log line: the suppressed candidate is
\* followed in the cycle by a log entry about its alert key.
SuppressedIsLogged ==
    \A i \in At("suppressed") :
        \E j \in DOMAIN trace :
            /\ j > i
            /\ trace[j].key = trace[i].key
            /\ trace[j].ev \in AlertLogEntries

\* C17: every device whose readings the GPU collector obtained is reported
\* in the GPU snapshot of the cycle, whichever other device failed.
DevicesReported ==
    metrics.gpu_status # Pending =>
        \A i \in At("gpu_data_append") :
            /\ "gpus" \in DOMAIN metrics.gpu_status
            /\ \E n \in DOMAIN metrics.gpu_status.gpus :
                 metrics.gpu_status.gpus[n].index = trace[i].key.message.gpu

\* C18: a resource snapshot is never the failure of the whole probe: when
\* one psutil call fails, at most that one figure is missing from it.
ResourceFieldsDegrade ==
    metrics.system_resources # Pending =>
        /\ ~metrics.system_resources.error
        /\ Cardinality({"cpu", "memory", "disk"}
                         \cap DOMAIN metrics.system_resources) >= 2

\* no candidate of the cycle has one of these titles
NoCandidate(titles) == \A i \in Candidates : trace[i].key.title \notin titles

\* C19: a cycle holds no candidate for a metric it has no reading of: none
\* of a collector whose snapshot is a failure, no GPU candidate when the
\* GPU is unavailable, no generation candidate when the generation test
\* returned no duration.
AbsentIsSkipped ==
    /\ Failed(metrics.api_health) => NoCandidate(ApiTitles)
    /\ Succeeded(metrics.api_health)
         /\ metrics.api_health.generation_test.response_time = None
         => NoCandidate({"Generation Time High"})
    /\ Failed(metrics.gpu_status) => NoCandidate(GpuTitles)
    /\ Succeeded(metrics.gpu_status) /\ ~metrics.gpu_status.available
         => NoCandidate(GpuTitles)
    /\ Failed(metrics.system_resources) => NoCandidate(SystemTitles)

(***************************************************************************)
(* Claims about the order of evaluation.                                   *)
(***************************************************************************)
\* the alert key for a reading above its limit, nothing otherwise
Breach(reading, limit, title, message) ==
    IF reading > limit THEN << AlertKey(title, message) >> ELSE << >>

\* the candidates an API snapshot calls for, in field order
ApiExpected(snap) ==
    IF ~Succeeded(snap) THEN << >>
    ELSE Breach(snap.health_endpoint.response_time, config.API_RESPONSE_THRESHOLD,
                "API Response Time High",
                Message("Health endpoint response time", None,
                        snap.health_endpoint.response_time))
         \o (IF snap.generation_test.response_time = None THEN << >>
             ELSE Breach(snap.generation_test.response_time,
                         config.GENERATION_TIME_THRESHOLD, "Generation Time High",
                         Message("Generation response time", None,
                                 snap.generation_test.response_time)))

\* the candidates the devices from position n on call for: by position,
\* memory before temperature
RECURSIVE GpuExpectedFrom(_, _)
GpuExpectedFrom(gpus, n) ==
    IF n > Len(gpus) THEN << >>
    ELSE Breach(gpus[n].used_percent, config.GPU_MEMORY_THRESHOLD * 100,
                "GPU Memory High",
                Message("memory usage", gpus[n].index, Format1(gpus[n].used_percent)))
         \o Breach(gpus[n].temperature, config.GPU_TEMP_THRESHOLD,
                   "GPU Temperature High",
                   Message("temperature", gpus[n].index, gpus[n].temperature))
         \o GpuExpectedFrom(gpus, n + 1)

GpuExpected(snap) ==
    IF Succeeded(snap) /\ snap.available THEN GpuExpectedFrom(snap.gpus, 1) ELSE << >>

\* the candidates a resource snapshot calls for, in field order
SystemExpected(snap) ==
    IF ~Succeeded(snap) THEN << >>
    ELSE Breach(snap.cpu.usage_percent, config.CPU_THRESHOLD * 10,
                "CPU Usage High", Message("CPU usage", None, snap.cpu.usage_percent))
         \o Breach(snap.memory.used_percent, config.MEMORY_THRESHOLD * 10,
                   "Memory Usage High",
                   Message("Memory usage", None, snap.memory.used_percent))
         \o Breach(snap.disk.used_percent, config.DISK_THRESHOLD * 100,
                   "Disk Usage High",
                   Message("Disk usage", None, Format1(snap.disk.used_percent)))

\* the alert keys of the cycle's candidates, in the order they were raised
CandidateKeys ==
    LET raised == SelectSeq(trace, LAMBDA e : e.ev = "send_alert")
    IN  [n \in DOMAIN raised |-> raised[n].key]

\* the place of an alert key in the fixed field order
FieldRank(key) ==
    CASE key.title = "API Response Time High" -> 0
      [] key.title = "Generation Time High"   -> 1
      [] key.title = "GPU Memory High"        -> 2 + 2 * key.message.gpu
      [] key.title = "GPU Temperature High"   -> 3 + 2 * key.message.gpu
      [] key.title = "CPU Usage High"         -> 2 + 2 * gpu_count
      [] key.title = "Memory Usage High"      -> 3 + 2 * gpu_count
      [] key.title = "Disk Usage High"        -> 4 + 2 * gpu_count

\* C20: once the three evaluating collectors have returned, the candidates
\* of the cycle are, in this order, those the API snapshot calls for (health
\* response time, generation time), those the GPU snapshot calls for (per
\* device in index order, memory before temperature) and those the resource
\* snapshot calls for (CPU, memory, disk): a function of the readings and
\* the thresholds alone, the same in every cycle with these readings
\* whatever alert_counts holds.  (A GPU snapshot that is a failure holds no
\* readings to compare with.)  At every point of every cycle the candidates
\* raised so far are in that field order, each field at most once.
EvaluationOrderFixed ==
    /\ \A a, b \in DOMAIN CandidateKeys :
         a < b => FieldRank(CandidateKeys[a]) < FieldRank(CandidateKeys[b])
    /\ metrics.system_resources # Pending /\ ~Failed(metrics.gpu_status)
         => CandidateKeys = ApiExpected(metrics.api_health)
                              \o GpuExpected(metrics.gpu_status)
                              \o SystemExpected(metrics.system_resources)

\* C20 witness: the second cycle read what the first had read, everything
\* above its threshold on both devices, and raised the same nine candidates,
\* all of them suppressed this time.
EvaluationOrderSeen ==
    /\ cycles = 2
    /\ metrics.system_resources # Pending
    /\ Len(CandidateKeys) = 9
    /\ Cardinality(At("suppressed")) = 9
    /\ \A n \in DOMAIN metrics.gpu_status.gpus :
         metrics.gpu_status.gpus[n].index = n - 1

(***************************************************************************)
(* Claims about single readings.                                           *)
(***************************************************************************)
\* the temperature candidates of the cycle
TemperatureCandidates ==
    { i \in Candidates : trace[i].key.title = "GPU Temperature High" }

\* C21: every temperature candidate names a device of the host whose
\* readings were taken just before, embeds a temperature above the
\* threshold, and is the only one naming that device; and for the devices
\* of a GPU snapshot, listed by index, a device has a temperature candidate
\* exactly when its temperature is above the threshold, the candidate
\* embedding that device's temperature.
PerDeviceTemperature ==
    /\ \A i \in TemperatureCandidates :
         LET g == trace[i].key.message.gpu
         IN  /\ g \in 0..(gpu_count - 1)
             /\ trace[i].key.message.value > config.GPU_TEMP_THRESHOLD
             /\ Cardinality(CandidatesFor("GPU Temperature High", g)) = 1
             /\ \E j \in AtKey("gpu_data_append", DeviceKey(g)) : j < i
    /\ Succeeded(metrics.gpu_status) /\ metrics.gpu_status.available =>
         \A n \in DOMAIN metrics.gpu_status.gpus :
            LET d == metrics.gpu_status.gpus[n]
            IN  /\ d.index = n - 1
                /\ IF d.temperature > config.GPU_TEMP_THRESHOLD
                   THEN \E i \in TemperatureCandidates :
                          /\ trace[i].key.message.gpu = d.index
                          /\ trace[i].key.message.value = d.temperature
                   ELSE CandidatesFor("GPU Temperature High", d.index) = {}

\* C21 witness: two devices, device 1 above the threshold and device 0 not:
\* one temperature candidate, naming device 1.
PerDeviceTemperatureSeen ==
    /\ Succeeded(metrics.gpu_status)
    /\ gpu_count = 2
    /\ metrics.gpu_status.gpus[1].temperature <= config.GPU_TEMP_THRESHOLD
    /\ metrics.gpu_status.gpus[2].temperature > config.GPU_TEMP_THRESHOLD
    /\ Cardinality(TemperatureCandidates) = 1
    /\ \A i \in TemperatureCandidates : trace[i].key.message.gpu = 1

DeliveryFailureKeepsBookkeeping ==
    /\ \A k \in undelivered :
         /\ k \in DOMAIN alert_counts
         /\ alert_counts[k] = last_sent[k]
    /\ \A i \in Candidates :
         /\ trace[i].key \in undelivered
         /\ trace[i].prev # None
         /\ trace[i].at - trace[i].prev < RATE_LIMIT_SECONDS
         => /\ AtKey("suppressed", trace[i].key) # {}
            /\ ~Dispatched(i)
            /\ ~ChannelInvoked(i)

\* C23 witness: the second cycle raised a candidate whose hand-over in the
\* first cycle had met a failing channel, and suppressed it.
DeliveryFailureSeen ==
    /\ cycles = 2
    /\ \E i \in Candidates :
         /\ trace[i].key \in undelivered
         /\ trace[i].prev # None
         /\ AtKey("suppressed", trace[i].key) # {}

\* a step changes alert_counts only by setting the time of alert keys whose
\* dispatch it recorded, to the time of that dispatch; it removes no key;
\* and only a step of a collector that evaluates thresholds changes it
SuppressionStateChange ==
    /\ DOMAIN alert_counts \subseteq DOMAIN alert_counts'
    /\ \A k \in DOMAIN alert_counts' :
         (k \notin DOMAIN alert_counts \/ alert_counts'[k] # alert_counts[k])
         => \E j \in DOMAIN trace' :
              /\ j > Len(trace)
              /\ trace'[j].ev = "recorded"
              /\ trace'[j].key = k
              /\ trace'[j].at = alert_counts'[k]
    /\ pc \notin {"api", "gpu", "system"} => alert_counts' = alert_counts

\* C24: alert_counts holds, for each alert key, the time at which it was
\* last handed to the channels, and every step of the process either leaves
\* it unchanged or records a dispatch: a suppressed candidate, the process
\* scan, save_metrics, the sleep and an interrupt leave it as it is.
SuppressionStateFrame ==
    [](alert_counts = last_sent) /\ [][SuppressionStateChange]_vars

\* C24 witness: a suppressed candidate of the third cycle, its key still
\* held at the time of its dispatch in the first cycle (the second cycle
\* started later than HEALTH_CHECK_INTERVAL), the suppressed candidate of
\* the second cycle in between having left that time alone.
SuppressionStateSeen ==
    /\ cycles = 3
    /\ \E i \in Candidates :
         /\ AtKey("suppressed", trace[i].key) # {}
         /\ alert_counts[trace[i].key] = trace[i].prev
         /\ trace[i].prev < config.HEALTH_CHECK_INTERVAL

(***************************************************************************)
(* Claims about the process scan and the modes of main.                    *)
(***************************************************************************)
\* the processes of the scan that were what kind says
Scanned(kind) == AtKey("scan", ProcessKey(kind))

\* C25: when the scan met a process that had gone or could not be read,
\* the process snapshot is a successful one and counts the matching
\* processes of the whole scan.
InaccessibleSkipped ==
    /\ Scanned("raises") \cup Scanned("denied") # {}
    /\ metrics.vllm_processes # Pending
    => /\ ~metrics.vllm_processes.error
       /\ metrics.vllm_processes.process_count = Cardinality(Scanned("vllm"))

\* C26: with -h or --help main prints the usage and returns, the monitor
\* never constructed and no cycle run; with --check-once it constructs the
\* monitor, runs at most one cycle, never sleeps or loops, and when it
\* returns it has completed that cycle and printed its record last; with no
\* argument it constructs the monitor and enters the loop, whose cycles are
\* never printed and which main never returns from on its own.
CommandLineModes ==
    /\ argv \in HelpFlags =>
         /\ pc \in {"start", "done"}
         /\ cycles = 0
         /\ At("construct") = {}
         /\ appended = << >> /\ alert_counts = EmptyMap /\ metrics = NoMetrics
         /\ pc = "done" => trace = << Step("print_usage", now) >>
    /\ argv = "--check-once" =>
         /\ cycles <= 1
         /\ pc \notin {"loop", "sleep", "stopped"}
         /\ At("sleep") \cup At("print_usage") = {}
         /\ pc = "done" =>
              /\ cycles = 1
              /\ CycleCompleted
              /\ trace[Len(trace)].ev = "print"
              /\ Cardinality(At("print")) = 1
    /\ argv = "" =>
         /\ pc \notin {"print", "done"}
         /\ At("print") \cup At("print_usage") = {}
         /\ pc \notin {"start", "main"} => cycles >= 1
    /\ pc = "main" => trace = << Step("construct", now) >>

\* C26 witness: --check-once has returned after its one cycle.
CommandLineModesSeen ==
    /\ argv = "--check-once"
    /\ pc = "done"
    /\ cycles = 1
    /\ appended = << metrics >>

(***************************************************************************)
(* Claims about the loop.                                                  *)
(***************************************************************************)
\* C27: without interrupt, every cycle that has completed (the loop is at
\* its sleep) is followed by the start of the next cycle, as far as the
\* clock and the cycles are explored.
LoopIsLive ==
    \A n \in 1..(MaxCycles - 1) :
        (/\ pc = "sleep"
         /\ cycles = n
         /\ now + config.HEALTH_CHECK_INTERVAL <= MaxTime)
        ~> (pc = "api" /\ cycles = n + 1)

\* C27 witness: the third cycle has started after two completed ones.
LoopIsLiveSeen ==
    /\ pc = "api"
    /\ cycles = 3
    /\ cycle_end # None
    /\ cycle_start = cycle_end + config.HEALTH_CHECK_INTERVAL


\* The scheduler: constructed and not yet in the loop, in the loop, or out
\* of it (interrupted, or ended by an exception that run_monitoring_loop
\* re-raises).
SchedulerState ==
    IF pc = "main" THEN "Idle"
    ELSE IF pc \in {"stopped", "crashed"} THEN "Stopped"
    ELSE "Running"

\* C28: every step of the monitor goes Idle to Running, Running to Running
\* or Running to Stopped; a stopped monitor takes no step at all: no cycle
\* starts, nothing is dispatched, nothing is persisted.
SchedulerLifecycle ==
    [][ /\ << SchedulerState, SchedulerState' >> \in
              { << "Idle", "Running" >>, << "Running", "Running" >>,
                << "Running", "Stopped" >> }
        /\ SchedulerState = "Idle" => pc' = "api" /\ cycles' = 1
      ]_vars

\* C28 witness: the monitor was stopped in its third cycle, with alerts
\* dispatched and a record persisted in the cycle it was stopped in.
SchedulerLifecycleSeen ==
    /\ pc = "stopped"
    /\ cycles = 3
    /\ alert_counts # EmptyMap
    /\ appended = << metrics >>


Collectors ==
    << "check_api_health", "check_gpu_status", "check_system_resources",
       "check_vllm_processes" >>

SnapshotFields == << "api_health", "gpu_status", "system_resources", "vllm_processes" >>

\* C29: no collector is called twice in a cycle; a collector is called only
\* after the one before it, whose snapshot is then in the record; when
\* save_metrics is called all four were called once, and the record is the
\* cycle's timestamp and the four returned snapshots, failed or not; the
\* line that is appended is that record.
RecordIsFourSnapshots ==
    /\ \A n \in 1..4 :
         /\ Cardinality(At(Collectors[n])) <= 1
         /\ n > 1 => \A i \in At(Collectors[n]) :
                       /\ \E j \in At(Collectors[n - 1]) : j < i
                       /\ metrics[SnapshotFields[n - 1]] # Pending
         /\ At(Collectors[n]) = {} => metrics[SnapshotFields[n]] = Pending
    /\ At("save_metrics") # {} =>
         /\ \A n \in 1..4 :
              /\ Cardinality(At(Collectors[n])) = 1
              /\ metrics[SnapshotFields[n]] # Pending
              /\ Before(CHOOSE i \in At(Collectors[n]) : TRUE, At("save_metrics"))
         /\ DOMAIN metrics = {"timestamp"} \cup { SnapshotFields[n] : n \in 1..4 }
         /\ metrics.timestamp = cycle_start
         /\ appended # << >> => appended = << metrics >>

\* C29 witness: a persisted record whose four snapshots are all failures.
RecordIsFourSnapshotsSeen ==
    /\ At("save_metrics") # {}
    /\ metrics.api_health.error
    /\ metrics.gpu_status.error
    /\ metrics.system_resources.error
    /\ metrics.vllm_processes.error
    /\ appended = << metrics >>


\* C30: the monitor is constructed with no hand-over time recorded, so every
\* candidate of its first cycle, and every later candidate whose key this
\* process has not handed over before, passes the rate limit and is
\* recorded at the time of the call.
SuppressionStartsEmpty ==
    /\ cycles = 0 => alert_counts = EmptyMap
    /\ cycles = 1 => \A i \in Candidates : trace[i].prev = None
    /\ \A i \in Candidates :
         trace[i].prev = None =>
             /\ Dispatched(i)
             /\ AtKey("suppressed", trace[i].key) = {}
             /\ alert_counts[trace[i].key] = trace[i].at

\* C30 witness: a second cycle in which a key seen for the first time is
\* handed over while a repeated one is suppressed.
SuppressionStartsEmptySeen ==
    /\ cycles = 2
    /\ \E i, j \in Candidates :
         /\ trace[i].prev = None
         /\ Dispatched(i)
         /\ trace[j].prev # None
         /\ ~Dispatched(j)


(***************************************************************************)
(* Claims about alerts and the record.                                     *)
(***************************************************************************)
\* the alert keys the snapshots of the record call for
RecordKeys ==
    ApiExpected(metrics.api_health) \o GpuExpected(metrics.gpu_status)
        \o SystemExpected(metrics.system_resources)

\* C31: once the record of the cycle is persisted, every alert dispatched
\* in the cycle is one that a snapshot of that record calls for: the
\* snapshot of its collector is a success and holds the reading the alert
\* embeds.
DispatchedBackedByRecord ==
    appended = << metrics >> =>
        \A i \in Candidates :
            Dispatched(i) => \E n \in DOMAIN RecordKeys : RecordKeys[n] = trace[i].key


\* C32: a candidate whose key was last handed over exactly 3600 seconds
\* before is handed over, reaches every enabled channel and is recorded at
\* the time of its arrival; of the candidates whose key was handed over
\* before, those handed over again are the ones arriving 3600 seconds or
\* more after.
WindowBoundary ==
    \A i \in Candidates :
        trace[i].prev # None =>
            /\ Dispatched(i) <=> trace[i].at - trace[i].prev >= RATE_LIMIT_SECONDS
            /\ trace[i].at - trace[i].prev = RATE_LIMIT_SECONDS =>
                 /\ ReachedChannels(i)
                 /\ AtKey("suppressed", trace[i].key) = {}
                 /\ alert_counts[trace[i].key] = trace[i].at

\* C32 witness: a candidate arrived exactly 3600 seconds after its key was
\* last handed over and the recorded time is now the time of its arrival.
WindowBoundarySeen ==
    \E i \in Candidates :
        /\ trace[i].prev # None
        /\ trace[i].at = trace[i].prev + RATE_LIMIT_SECONDS
        /\ Dispatched(i)
        /\ alert_counts[trace[i].key] = trace[i].at


(***************************************************************************)
(* Claims about the configuration.                                         *)
(***************************************************************************)
\* C33: reading an assignment line never ends load_config: the loop goes
\* on, the key holds the bool, int or float of the value text or the text
\* itself, and every other key keeps the value it had (its default, when no
\* line of the file names it).
ConfigLineStored ==
    [][ pc = "load_config" /\ config_file # << >> /\ IsAssignment(Head(config_file)) =>
          /\ pc' = "load_config"
          /\ KeyOf(Head(config_file)) \in DOMAIN config'
          /\ config'[KeyOf(Head(config_file))] = Convert(ValueOf(Head(config_file))).stored
          /\ \A k \in DOMAIN config \ {KeyOf(Head(config_file))} : config'[k] = config[k]
      ]_vars


(***************************************************************************)
(* Claims about validate-config.py.                                        *)
(***************************************************************************)
\* the exit status the results call for: 1 with a fail, else 2 with a
\* warning, else 0
StatusOfResults ==
    IF \E n \in DOMAIN results : results[n].status = "fail" THEN 1
    ELSE IF \E n \in DOMAIN results : results[n].status = "warning" THEN 2
    ELSE 0

\* C34 as stated: the validator exits with the status its results call for.
ExitStatusByResults ==
    pc = "exited" => exit_status = StatusOfResults

\* C34 amended: the validator exits with the status its results call for
\* when it has generated, written and announced its report; when one of
\* these raises it exits with status 1 whatever the results are; it has no
\* exit status before.
ExitStatusWhenReported ==
    /\ pc = "exited" /\ At("report_written") # {} => exit_status = StatusOfResults
    /\ pc = "exited" /\ At("traceback") # {} => exit_status = 1
    /\ pc = "exited" => Cardinality(At("report_written") \cup At("traceback")) = 1
    /\ pc \in {"validate_crush_config", "validate_host", "report"} => exit_status = None

\* C34 witness: a report written for results with one fail among several
\* warnings, exit status 1.
ExitStatusWhenReportedSeen ==
    /\ pc = "exited"
    /\ At("report_written") # {}
    /\ Cardinality({ n \in DOMAIN results : results[n].status = "fail" }) = 1
    /\ Cardinality({ n \in DOMAIN results : results[n].status = "warning" }) >= 2
    /\ exit_status = 1

\* the names of the results of validate_crush_config and of what it calls
CrushResultNames ==
    { "CRUSH Config File", "CRUSH Config Schema", "CRUSH Providers", "CRUSH API Key",
      "Provider Config - type", "Provider Config - base_url", "Provider Config - api_key",
      "Provider Config - models", "Provider Base URL", "Provider Models",
      "Model Config - id", "Model Config - name", "Model Config - context_window",
      "Model Context Window" }

\* C35: the results hold the pass "CRUSH Config File: Configuration file is
\* valid" only when they hold no fail of validate_crush_config.
ValidOnlyWithoutFail ==
    (\E n \in DOMAIN results :
        results[n] = ValidationResult("CRUSH Config File", "pass",
                                      "Configuration file is valid"))
    => \A n \in DOMAIN results :
           results[n].name \in CrushResultNames => results[n].status # "fail"

====
